---- MODULE Spec2Model ----
(***************************************************************************)
(* The write path of the rappterverse state store: the delta validator     *)
(* (scripts/validate_delta.py), the delta applier (scripts/apply_deltas.py) *)
(* and the state validator / auditor (scripts/validate_action.py).          *)
(*                                                                          *)
(* JSON objects are functions from field names to values; a field that is   *)
(* absent from the JSON object is absent from the function's DOMAIN.        *)
(* Timestamps are the ISO-8601 UTC strings "YYYY-MM-DDTHH:MM:SSZ" of the     *)
(* delta format; strings of that one format compare as the instants they    *)
(* name, and the model writes an instant as a natural number.               *)
(***************************************************************************)
EXTENDS Integers, Sequences, FiniteSets, TLC

VARIABLES
    store,      \* the canonical documents (state/*.json, worlds/*/objects.json, feed/activity.json)
    inbox,      \* state/inbox/: file name -> delta
    pc,         \* position of apply_deltas.main: "idle", "apply", "remove", "done"
    queue,      \* main: deltas_with_ts not yet processed (file names, in order)
    processed,  \* main: processed
    passInbox,  \* the inbox as main's glob found it when the pass started
    passStore,  \* the documents when the pass started
    order,      \* file names in the order this pass handed them to apply_delta
    pre,        \* the documents before the latest apply_delta call
    lastFile,   \* the file of the latest apply_delta call
    lastOk,     \* what the latest apply_delta call returned
    applied,    \* the deltas apply_delta has applied so far, over all passes
    submits,    \* number of deltas writers have written so far
    findings,   \* the errors list of the latest audit
    audited,    \* TRUE when no document has been written since the latest audit
    probe,      \* input of a validate_position call and the errors it appended
    gate,       \* a run of validate_delta.py: its inbox, its position, errors, exit code
    audit,      \* a run of validate_action.py --audit: the files it read, its errors
    wf,         \* the runs of the state-writing workflows and what they have pushed
    writer,     \* the calls of the scripts that write the documents themselves
    interrupts  \* number of merge passes that were stopped before their end

vars == <<store, inbox, pc, queue, processed, passInbox, passStore, order, pre, lastFile,
          lastOk, applied, submits, findings, audited, probe, gate, audit,
          wf, writer, interrupts>>

-----------------------------------------------------------------------------
(* Bounds of the model *)

MaxSubmits == 3

-----------------------------------------------------------------------------
(* JSON helpers *)

\* dict.get(key, default)
Get(d, k, default) == IF k \in DOMAIN d THEN d[k] ELSE default

Has(d, k) == k \in DOMAIN d

\* dict.update(other): the fields of other overwrite or extend those of d
Update(d, other) ==
    [k \in DOMAIN d \cup DOMAIN other |-> IF k \in DOMAIN other THEN other[k] ELSE d[k]]

EmptyObject == [k \in {} |-> 0]

Range(s) == {s[i] : i \in 1..Len(s)}

RECURSIVE FlatMap(_, _)
\* the concatenation of Op(s[1]), Op(s[2]), ...
FlatMap(Op(_), s) ==
    IF s = <<>> THEN <<>> ELSE Op(Head(s)) \o FlatMap(Op, Tail(s))

RECURSIVE SelectIdx(_, _, _)
\* [s[i] for i in sequence order if Keep(i)] over the indices from..Len(s)
SelectIdx(s, keep, from) ==
    IF from > Len(s) THEN <<>>
    ELSE (IF from \in keep THEN <<s[from]>> ELSE <<>>) \o SelectIdx(s, keep, from + 1)

-----------------------------------------------------------------------------
(* scripts/validate_action.py: the bounds table and validate_position *)

WORLD_BOUNDS ==
    [hub         |-> [x |-> <<-15, 15>>, z |-> <<-15, 15>>],
     arena       |-> [x |-> <<-12, 12>>, z |-> <<-12, 12>>],
     marketplace |-> [x |-> <<-15, 15>>, z |-> <<-15, 15>>],
     gallery     |-> [x |-> <<-12, 12>>, z |-> <<-12, 15>>],
     dungeon     |-> [x |-> <<-12, 12>>, z |-> <<-12, 12>>]]

\* validate_position with the bounds themselves out of range (< for <=)
validate_position_exclusive(pos, world, context) ==
    IF world \notin DOMAIN WORLD_BOUNDS
    THEN << [kind |-> "unknown_world", context |-> context, world |-> world] >>
    ELSE LET bounds == WORLD_BOUNDS[world]
             x == Get(pos, "x", 0)
             z == Get(pos, "z", 0)
         IN  (IF ~(bounds.x[1] < x /\ x < bounds.x[2])
              THEN << [kind |-> "out_of_bounds", context |-> context, axis |-> "x",
                       value |-> x, world |-> world,
                       lo |-> bounds.x[1], hi |-> bounds.x[2]] >>
              ELSE <<>>)
             \o
             (IF ~(bounds.z[1] < z /\ z < bounds.z[2])
              THEN << [kind |-> "out_of_bounds", context |-> context, axis |-> "z",
                       value |-> z, world |-> world,
                       lo |-> bounds.z[1], hi |-> bounds.z[2]] >>
              ELSE <<>>)

\* The errors validate_position appends, in order. An error keeps what its
\* message names: the context, the axis, the value and the allowed range.
validate_position(pos, world, context) ==
    IF world \notin DOMAIN WORLD_BOUNDS
    THEN << [kind |-> "unknown_world", context |-> context, world |-> world] >>
    ELSE LET bounds == WORLD_BOUNDS[world]
             x == Get(pos, "x", 0)
             z == Get(pos, "z", 0)
         IN  (IF ~(bounds.x[1] <= x /\ x <= bounds.x[2])
              THEN << [kind |-> "out_of_bounds", context |-> context, axis |-> "x",
                       value |-> x, world |-> world,
                       lo |-> bounds.x[1], hi |-> bounds.x[2]] >>
              ELSE <<>>)
             \o
             (IF ~(bounds.z[1] <= z /\ z <= bounds.z[2])
              THEN << [kind |-> "out_of_bounds", context |-> context, axis |-> "z",
                       value |-> z, world |-> world,
                       lo |-> bounds.z[1], hi |-> bounds.z[2]] >>
              ELSE <<>>)

-----------------------------------------------------------------------------
(* scripts/validate_action.py: validate_agents, validate_actions *)

VALID_ACTION_TYPES ==
    {"move", "chat", "emote", "spawn", "despawn", "interact", "trade_offer",
     "trade_accept", "trade_decline", "battle_challenge", "battle_action",
     "place_object", "teach"}

VALID_EMOTES == {"wave", "dance", "bow", "clap", "think", "celebrate", "cheer", "nod"}

\* actions[-10:], messages[-10:]: how many of the newest entries get the
\* detailed validation
RecentWindow == 10

\* d.get(k) as a value that compares with None: <<v>> when present, <<>> when not
Opt(d, k) == IF Has(d, k) THEN <<d[k]>> ELSE <<>>

\* the ids of the entries before index i that carry an id (`if aid:`: one
\* that is not empty)
SeenIds(entries, i) ==
    {entries[j]["id"] : j \in {k \in 1..(i - 1) : Opt(entries[k], "id") \notin {<<>>, <<"">>}}}

AgentErrors(agents, i) ==
    LET agent == agents[i] IN
    IF ~Has(agent, "id") THEN << [kind |-> "agent_missing_id"] >>
    ELSE LET aid == agent["id"]
             MissingField(field) ==
                 IF ~Has(agent, field)
                 THEN << [kind |-> "agent_missing_field", agent |-> aid, field |-> field] >>
                 ELSE <<>>
             world == Get(agent, "world", "hub")
             pos == Get(agent, "position", EmptyObject)
         IN  (IF aid \in SeenIds(agents, i)
              THEN << [kind |-> "duplicate_agent_id", agent |-> aid] >> ELSE <<>>)
             \o FlatMap(MissingField, <<"name", "world", "position", "status">>)
             \o (IF pos # EmptyObject THEN validate_position(pos, world, aid) ELSE <<>>)

\* The errors validate_agents appends for the agents.json document `data`.
validate_agents(data) ==
    IF ~Has(data, "agents") THEN << [kind |-> "missing_agents_array"] >>
    ELSE LET agents == data["agents"]
             PerAgent(i) == AgentErrors(agents, i)
         IN  FlatMap(PerAgent, [i \in 1..Len(agents) |-> i])
             \o (IF ~Has(data, "_meta") THEN << [kind |-> "agents_missing_meta"] >>
                 ELSE IF Opt(data["_meta"], "agentCount") # <<Len(agents)>>
                      THEN << [kind |-> "agent_count_mismatch",
                               announced |-> Opt(data["_meta"], "agentCount"),
                               actual |-> Len(agents)] >>
                      ELSE <<>>)

\* DuplicateIdErrors that looks at the last 10 entries only
DuplicateIdErrorsRecent(entries, kind) ==
    LET recent == IF Len(entries) <= RecentWindow THEN entries
                  ELSE SubSeq(entries, Len(entries) - RecentWindow + 1, Len(entries))
        At(i) == IF Has(recent[i], "id") /\ recent[i]["id"] \in SeenIds(recent, i)
                 THEN << [kind |-> kind, id |-> recent[i]["id"]] >> ELSE <<>>
    IN  FlatMap(At, [i \in 1..Len(recent) |-> i])

\* lines 139-146, 211-218: one error per entry whose id an earlier entry carries
DuplicateIdErrors(entries, kind) ==
    LET At(i) == IF Has(entries[i], "id") /\ entries[i]["id"] \in SeenIds(entries, i)
                 THEN << [kind |-> kind, id |-> entries[i]["id"]] >> ELSE <<>>
    IN  FlatMap(At, [i \in 1..Len(entries) |-> i])

\* lines 148-161, 220-233: one error per entry whose timestamp is before the
\* timestamp of the nearest earlier entry that carries one
TimestampOrderErrors(entries, kind) ==
    LET Stamped(i) == {j \in 1..(i - 1) : Has(entries[j], "timestamp")}
        Prev(i) == CHOOSE j \in Stamped(i) : \A k \in Stamped(i) : k <= j
        At(i) == IF /\ Has(entries[i], "timestamp")
                    /\ Stamped(i) # {}
                    /\ entries[i]["timestamp"] < entries[Prev(i)]["timestamp"]
                 THEN << [kind |-> kind, id |-> Opt(entries[i], "id")] >> ELSE <<>>
    IN  FlatMap(At, [i \in 1..Len(entries) |-> i])

\* lines 164-198: the detailed validation of one recent action
ActionDetailErrors(action, agent_ids) ==
    IF ~Has(action, "id") THEN << [kind |-> "action_missing_id"] >>
    ELSE LET aid == action["id"]
             MissingField(field) ==
                 IF ~Has(action, field)
                 THEN << [kind |-> "action_missing_field", id |-> aid, field |-> field] >>
                 ELSE <<>>
             action_type == Opt(action, "type")
             data == Get(action, "data", EmptyObject)
             w == Get(action, "world", "hub")
         IN  FlatMap(MissingField, <<"timestamp", "agentId", "type", "world", "data">>)
             \o (IF Has(action, "agentId") /\ action["agentId"] \notin agent_ids
                 THEN << [kind |-> "unknown_agent", id |-> aid,
                          agent |-> action["agentId"]] >> ELSE <<>>)
             \o (IF Has(action, "type") /\ action["type"] \notin VALID_ACTION_TYPES
                 THEN << [kind |-> "invalid_action_type", id |-> aid] >> ELSE <<>>)
             \o (IF Has(action, "world") /\ action["world"] \notin DOMAIN WORLD_BOUNDS
                 THEN << [kind |-> "action_unknown_world", id |-> aid] >> ELSE <<>>)
             \o (IF action_type = <<"move">>
                 THEN (IF Has(data, "to") THEN validate_position(data["to"], w, aid) ELSE <<>>)
                      \o (IF Has(data, "from") THEN validate_position(data["from"], w, aid)
                          ELSE <<>>)
                 ELSE <<>>)
             \o (IF action_type = <<"emote">> /\ Has(data, "emote")
                    /\ data["emote"] \notin VALID_EMOTES
                 THEN << [kind |-> "invalid_emote", id |-> aid] >> ELSE <<>>)

\* s[-n:]
LastN(s, n) == IF Len(s) <= n THEN s ELSE SubSeq(s, Len(s) - n + 1, Len(s))

\* The errors validate_actions appends for the actions.json document `data`.
validate_actions(data, agent_ids) ==
    IF ~Has(data, "actions") THEN << [kind |-> "missing_actions_array"] >>
    ELSE LET actions == data["actions"]
             Detail(a) == ActionDetailErrors(a, agent_ids)
         IN  DuplicateIdErrors(actions, "duplicate_action_id")
             \o TimestampOrderErrors(actions, "action_timestamp_out_of_order")
             \o FlatMap(Detail, LastN(actions, RecentWindow))

\* lines 235-257: the detailed validation of one recent message
MessageDetailErrors(msg) ==
    IF ~Has(msg, "id") THEN << [kind |-> "message_missing_id"] >>
    ELSE LET mid == msg["id"]
             MissingField(field) ==
                 IF ~Has(msg, field)
                 THEN << [kind |-> "message_missing_field", id |-> mid, field |-> field] >>
                 ELSE <<>>
             author == Get(msg, "author", EmptyObject)
         IN  FlatMap(MissingField, <<"timestamp", "author", "content", "world">>)
             \o (IF ~Has(author, "id")
                 THEN << [kind |-> "author_missing_id", id |-> mid] >> ELSE <<>>)
             \o (IF ~Has(author, "name")
                 THEN << [kind |-> "author_missing_name", id |-> mid] >> ELSE <<>>)
             \o (IF Has(msg, "world") /\ msg["world"] \notin DOMAIN WORLD_BOUNDS
                 THEN << [kind |-> "message_unknown_world", id |-> mid] >> ELSE <<>>)

\* The errors validate_chat appends for the chat.json document `data`. (The
\* model's messages carry a content token, never one longer than 500 characters.)
validate_chat(data, agent_ids) ==
    IF ~Has(data, "messages") THEN << [kind |-> "missing_messages_array"] >>
    ELSE LET messages == data["messages"]
         IN  DuplicateIdErrors(messages, "duplicate_message_id")
             \o TimestampOrderErrors(messages, "message_timestamp_out_of_order")
             \o FlatMap(MessageDetailErrors, LastN(messages, RecentWindow))

-----------------------------------------------------------------------------
(* scripts/validate_action.py: audit_state_consistency *)

\* line 396-398: a move action that names its agent and its target
IsRelocation(action) ==
    /\ Opt(action, "type") = <<"move">>
    /\ Has(action, "agentId")
    /\ Has(Get(action, "data", EmptyObject), "to")
    /\ action["data"]["to"] # EmptyObject

\* lines 394-403: last_move[aid], the newest relocation of aid in log order
LastMove(actions, aid) ==
    LET moves == {i \in 1..Len(actions) :
                     IsRelocation(actions[i]) /\ actions[i]["agentId"] = aid}
        last == CHOOSE i \in moves : \A j \in moves : j <= i
    IN  [position  |-> actions[last]["data"]["to"],
         world     |-> Opt(actions[last], "world"),
         action_id |-> Opt(actions[last], "id")]

RECURSIVE MovedAgents(_, _)
\* the keys of last_move in the order the dict first got them; seen is the set
\* of keys met so far
MovedAgents(actions, seen) ==
    IF actions = <<>> THEN <<>>
    ELSE LET a == Head(actions)
         IN  IF IsRelocation(a) /\ a["agentId"] \notin seen
             THEN <<a["agentId"]>> \o MovedAgents(Tail(actions), seen \cup {a["agentId"]})
             ELSE MovedAgents(Tail(actions), seen)

\* agent_positions[aid], agent_worlds[aid]: a dict comprehension keeps the
\* last record of an id
AgentRecord(agents, aid) ==
    LET hits == {i \in 1..Len(agents) : Opt(agents[i], "id") = <<aid>>}
    IN  agents[CHOOSE i \in hits : \A j \in hits : j <= i]

\* DriftErrors comparing with the oldest relocation of the agent, not the newest
DriftErrorsFirstMove(agents, actions, aid) ==
    IF \A i \in 1..Len(agents) : Opt(agents[i], "id") # <<aid>> THEN <<>>
    ELSE LET moves == {i \in 1..Len(actions) :
                          IsRelocation(actions[i]) /\ actions[i]["agentId"] = aid}
             first == CHOOSE i \in moves : \A j \in moves : i <= j
             current == Get(AgentRecord(agents, aid), "position", EmptyObject)
             expected == actions[first]["data"]["to"]
         IN  (IF Opt(current, "x") # Opt(expected, "x") \/ Opt(current, "z") # Opt(expected, "z")
              THEN << [kind |-> "position_drift", agent |-> aid,
                       action_id |-> Opt(actions[first], "id")] >> ELSE <<>>)
             \o
             (IF Opt(AgentRecord(agents, aid), "world") # Opt(actions[first], "world")
              THEN << [kind |-> "world_drift", agent |-> aid,
                       action_id |-> Opt(actions[first], "id")] >> ELSE <<>>)

\* lines 405-423: the drift errors for one agent that has a relocation in the log
DriftErrors(agents, actions, aid) ==
    IF \A i \in 1..Len(agents) : Opt(agents[i], "id") # <<aid>> THEN <<>>
    ELSE LET move_info == LastMove(actions, aid)
             current == Get(AgentRecord(agents, aid), "position", EmptyObject)
             expected == move_info.position
         IN  (IF Opt(current, "x") # Opt(expected, "x") \/ Opt(current, "z") # Opt(expected, "z")
              THEN << [kind |-> "position_drift", agent |-> aid,
                       action_id |-> move_info.action_id] >> ELSE <<>>)
             \o
             (IF Opt(AgentRecord(agents, aid), "world") # move_info.world
              THEN << [kind |-> "world_drift", agent |-> aid,
                       action_id |-> move_info.action_id] >> ELSE <<>>)

\* lines 392-425: section 2 of the audit
PositionAudit(agents_data, actions_data) ==
    LET agents == Get(agents_data, "agents", <<>>)
        actions == Get(actions_data, "actions", <<>>)
        PerAgent(aid) == DriftErrors(agents, actions, aid)
    IN  FlatMap(PerAgent, MovedAgents(actions, {}))

\* A file of state/ that holds no JSON document: no such file, or bytes that
\* json.load rejects (a merge-conflict marker, a truncated write).
Missing == [absent |-> TRUE]

Malformed == [raw |-> "<<<<<<< HEAD"]

IsDocument(file) == file \notin {Missing, Malformed}

\* load_json, lines 57-67: the error it appends for the file
LoadErrors(name, file) ==
    IF file = Malformed THEN << [kind |-> "invalid_json", file |-> name] >>
    ELSE IF file = Missing THEN << [kind |-> "file_not_found", file |-> name] >>
    ELSE <<>>

\* load_json, lines 57-67: the value it returns; None is the empty object here,
\* every use of the value is under `if data:` or after `if not agents_data`
LoadedOrNone(file) == IF IsDocument(file) THEN file ELSE EmptyObject

RECURSIVE SortedIds(_)
\* sorted(ids); IdOrder is the ids the model's records carry, in the order
\* sorted() gives them
SortedIds(ids) ==
    IF ids = {} THEN <<>>
    ELSE LET IdOrder == <<"ghost", "n1", "n2", "r1", "r2">>
             IdRank(id) == CHOOSE i \in 1..Len(IdOrder) : IdOrder[i] = id
             first == CHOOSE n \in ids : \A m \in ids : IdRank(n) <= IdRank(m)
         IN  <<first>> \o SortedIds(ids \ {first})

\* The errors validate_trades appends for the trades.json document `data`.
validate_trades(data, agent_ids) ==
    LET PerTrade(trade) ==
            LET tid == Get(trade, "id", "unknown")
                MissingField(field) ==
                    IF ~Has(trade, field)
                    THEN << [kind |-> "trade_missing_field", id |-> tid, field |-> field] >>
                    ELSE <<>>
                offerer == IF Has(trade, "offeredBy") THEN Opt(trade, "offeredBy")
                           ELSE Opt(trade, "agentId")
                target == Opt(trade, "targetAgentId")
            IN  FlatMap(MissingField, <<"id", "timestamp", "status">>)
                \o (IF offerer # <<>> /\ offerer[1] \notin agent_ids
                    THEN << [kind |-> "trade_unknown_offerer", id |-> tid] >> ELSE <<>>)
                \o (IF target # <<>> /\ target[1] \notin agent_ids
                    THEN << [kind |-> "trade_unknown_target", id |-> tid] >> ELSE <<>>)
    IN  (IF ~Has(data, "_meta") THEN << [kind |-> "trades_missing_meta"] >> ELSE <<>>)
        \o FlatMap(PerTrade, Get(data, "activeTrades", <<>>))

\* The errors validate_inventory appends for the inventory.json document `data`.
validate_inventory(data, agent_ids) ==
    LET inventories == Get(data, "inventories", EmptyObject)
        valid_rarities == {"common", "rare", "epic", "holographic"}
        PerItem(item) ==
            (IF ~Has(item, "id")
             THEN << [kind |-> "item_missing_id"] >> ELSE <<>>)
            \o (IF Has(item, "rarity") /\ item["rarity"] \notin valid_rarities
                THEN << [kind |-> "invalid_rarity", id |-> Opt(item, "id")] >> ELSE <<>>)
        PerAgent(agent_id) ==
            (IF agent_id \notin agent_ids
             THEN << [kind |-> "inventory_unknown_agent", agent |-> agent_id] >> ELSE <<>>)
            \o FlatMap(PerItem, Get(inventories[agent_id], "items", <<>>))
    IN  (IF ~Has(data, "_meta") THEN << [kind |-> "inventory_missing_meta"] >> ELSE <<>>)
        \o FlatMap(PerAgent, SortedIds(DOMAIN inventories))

\* The errors validate_npcs appends for the npcs.json document `data`. (The
\* model's npcs carry no needs.)
validate_npcs(data) ==
    LET PerNpc(npc) ==
            LET nid == Get(npc, "id", "unknown")
            IN  (IF Has(npc, "world") /\ npc["world"] \notin DOMAIN WORLD_BOUNDS
                 THEN << [kind |-> "npc_unknown_world", npc |-> nid] >> ELSE <<>>)
                \o (IF Has(npc, "world") /\ Get(npc, "position", EmptyObject) # EmptyObject
                    THEN validate_position(npc["position"], npc["world"], nid) ELSE <<>>)
    IN  (IF ~Has(data, "_meta") THEN << [kind |-> "npcs_missing_meta"] >> ELSE <<>>)
        \o FlatMap(PerNpc, Get(data, "npcs", <<>>))

RECURSIVE FirstIds(_, _)
\* the keys of a dict comprehension over the records that carry an id, in the
\* order the dict first got them
FirstIds(records, seen) ==
    IF records = <<>> THEN <<>>
    ELSE LET r == Head(records)
         IN  IF Has(r, "id") /\ r["id"] \notin seen
             THEN <<r["id"]>> \o FirstIds(Tail(records), seen \cup {r["id"]})
             ELSE FirstIds(Tail(records), seen)

\* NpcAudit without the comparison of the worlds
NpcAuditOrphansOnly(agents_data, npcs_data) ==
    LET agents == Get(agents_data, "agents", <<>>)
        npcs == Get(npcs_data, "npcs", <<>>)
        Orphan(nid) == << [kind |-> "npc_not_in_agents", npc |-> nid] >>
    IN  FlatMap(Orphan, SortedIds(Range(FirstIds(npcs, {})) \ Range(FirstIds(agents, {}))))

\* lines 427-445: section 3 of the audit, the npcs against the agents
NpcAudit(agents_data, npcs_data) ==
    LET agents == Get(agents_data, "agents", <<>>)
        npcs == Get(npcs_data, "npcs", <<>>)
        agent_ids == Range(FirstIds(agents, {}))
        npc_ids == Range(FirstIds(npcs, {}))
        Orphan(nid) == << [kind |-> "npc_not_in_agents", npc |-> nid] >>
        Mismatch(nid) ==
            LET agent_world == IF nid \in agent_ids
                               THEN Opt(AgentRecord(agents, nid), "world") ELSE <<>>
                npc_world == Opt(AgentRecord(npcs, nid), "world")
            IN  IF agent_world # <<>> /\ npc_world # <<>> /\ agent_world # npc_world
                THEN << [kind |-> "npc_world_mismatch", npc |-> nid,
                         npc_world |-> npc_world[1], agent_world |-> agent_world[1]] >>
                ELSE <<>>
    IN  FlatMap(Orphan, SortedIds(npc_ids \ agent_ids))
        \o FlatMap(Mismatch, FirstIds(npcs, {}))

\* lines 449-453: world_populations.get(world, 0), the agents counted afresh
ActualPopulation(agents_data, world) ==
    LET agents == Get(agents_data, "agents", <<>>)
    IN  Cardinality({i \in 1..Len(agents) : Opt(agents[i], "world") = <<world>>})

\* lines 447-464: section 4 of the audit, the population rollups of
\* game_state.json against the agents
PopulationAudit(agents_data, game_state) ==
    LET worlds == Get(game_state, "worlds", EmptyObject)
        PerWorld(world_name) ==
            IF world_name \notin DOMAIN worlds THEN <<>>
            ELSE LET reported == Get(worlds[world_name], "population", 0)
                     actual == ActualPopulation(agents_data, world_name)
                 IN  IF reported # 0 /\ reported # actual
                     THEN << [kind |-> "population_drift", world |-> world_name,
                              reported |-> reported, actual |-> actual] >>
                     ELSE <<>>
    \* the worlds game_state.json lists, in the order the model iterates them
    IN  FlatMap(PerWorld, <<"arena", "hub">>)

\* drift_hours > 168, line 487, in the seconds the model's timestamps count
StaleSeconds == 168 * 3600

\* lines 467-474: the documents whose _meta.lastUpdate the freshness check reads
FreshnessFiles == <<"agents", "actions", "chat", "trades", "inventory", "npcs">>

\* lines 473-478: the timestamps that parse, one per loaded document with a
\* _meta that carries a lastUpdate
MetaTimestamps(docs) ==
    {docs[name]["_meta"]["lastUpdate"] :
        name \in {n \in Range(FreshnessFiles) :
                     /\ docs[n] # EmptyObject
                     /\ Has(docs[n], "_meta")
                     /\ Has(docs[n]["_meta"], "lastUpdate")}}

\* StalenessAudit that reports a spread of exactly the window too
StalenessAuditAtWindow(docs) ==
    LET stamps == MetaTimestamps(docs)
    IN  IF stamps = {} THEN <<>>
        ELSE LET newest == CHOOSE t \in stamps : \A u \in stamps : u <= t
                 oldest == CHOOSE t \in stamps : \A u \in stamps : t <= u
             IN  IF newest - oldest >= StaleSeconds
                 THEN << [kind |-> "stale_data", oldest |-> oldest, newest |-> newest] >>
                 ELSE <<>>

\* lines 466-492: section 5 of the audit
StalenessAudit(docs) ==
    LET stamps == MetaTimestamps(docs)
    IN  IF stamps = {} THEN <<>>
        ELSE LET newest == CHOOSE t \in stamps : \A u \in stamps : u <= t
                 oldest == CHOOSE t \in stamps : \A u \in stamps : t <= u
             IN  IF newest - oldest > StaleSeconds
                 THEN << [kind |-> "stale_data", oldest |-> oldest, newest |-> newest] >>
                 ELSE <<>>

\* the files of state/ the audit loads, in the order it loads them
AuditFiles == <<"agents", "actions", "chat", "trades", "inventory", "npcs", "game_state">>

\* The errors audit_state_consistency appends over the files of state/: those
\* of load_json, the per-file validators of section 1, then sections 2 to 5.
audit_state_consistency(s) ==
    LET Load(name) == LoadErrors(name, s[name])
        docs == [name \in Range(AuditFiles) |-> LoadedOrNone(s[name])]
        agents == Get(docs.agents, "agents", <<>>)
        agent_ids == {agents[i]["id"] : i \in {k \in 1..Len(agents) : Has(agents[k], "id")}}
    IN  FlatMap(Load, AuditFiles)
        \o (IF docs.agents = EmptyObject THEN << [kind |-> "cannot_audit"] >>
            ELSE validate_agents(docs.agents)
                 \o (IF docs.actions # EmptyObject
                     THEN validate_actions(docs.actions, agent_ids) ELSE <<>>)
                 \o (IF docs.chat # EmptyObject
                     THEN validate_chat(docs.chat, agent_ids) ELSE <<>>)
                 \o (IF docs.trades # EmptyObject
                     THEN validate_trades(docs.trades, agent_ids) ELSE <<>>)
                 \o (IF docs.inventory # EmptyObject
                     THEN validate_inventory(docs.inventory, agent_ids) ELSE <<>>)
                 \o (IF docs.npcs # EmptyObject THEN validate_npcs(docs.npcs) ELSE <<>>)
                 \o (IF docs.actions # EmptyObject
                     THEN PositionAudit(docs.agents, docs.actions) ELSE <<>>)
                 \o (IF docs.npcs # EmptyObject
                     THEN NpcAudit(docs.agents, docs.npcs) ELSE <<>>)
                 \o (IF docs.game_state # EmptyObject
                     THEN PopulationAudit(docs.agents, docs.game_state) ELSE <<>>)
                 \o StalenessAudit(docs))

-----------------------------------------------------------------------------
(* scripts/validate_delta.py *)

VALID_WORLDS == {"hub", "arena", "marketplace", "gallery", "dungeon"}

\* validate_delta.py's own VALID_ACTION_TYPES (lines 18-22)
DELTA_VALID_ACTION_TYPES ==
    {"move", "chat", "emote", "spawn", "despawn", "interact", "trade_offer",
     "trade_accept", "trade_decline", "battle_challenge", "battle_action",
     "place_object", "teach"}

\* What json.load returns for the content of a delta file, tagged with its
\* Python type: the validator reads files of any content.
JNull == [t |-> "null"]

JNum(n) == [t |-> "num", v |-> n]

JStr(s) == [t |-> "str", v |-> s]

JList(s) == [t |-> "list", v |-> s]

JObj(f) == [t |-> "obj", v |-> f]

\* a file content json.load raises JSONDecodeError on
NotJson == [t |-> "invalid"]

\* `key in v` evaluates without a TypeError: v is a dict, a list or a str
IsContainer(v) == v.t \in {"obj", "list", "str"}

\* `key in v` for a container v: a key of the dict, an element of the list, a
\* substring of the str (the strings of the model contain a key only when
\* they are the key)
Contains(v, key) ==
    CASE v.t = "obj"  -> key \in DOMAIN v.v
      [] v.t = "list" -> \E i \in 1..Len(v.v) : v.v[i] = JStr(key)
      [] v.t = "str"  -> v.v = key

\* v[key] for a str key evaluates without a TypeError
IsIndexable(v) == v.t = "obj"

\* `v in some_set` evaluates without a TypeError: v is hashable
IsHashable(v) == v.t \notin {"list", "obj"}

\* `not v`
IsFalsy(v) ==
    CASE v.t = "null" -> TRUE
      [] v.t = "num"  -> v.v = 0
      [] v.t = "str"  -> v.v = ""
      [] v.t = "list" -> v.v = <<>>
      [] v.t = "obj"  -> DOMAIN v.v = {}

RECURSIVE KeysOf(_)
\* the keys of a dict, as a list
KeysOf(S) ==
    IF S = {} THEN <<>>
    ELSE LET k == CHOOSE x \in S : TRUE IN << JStr(k) >> \o KeysOf(S \ {k})

\* what `for x in v` iterates over: the elements of a list, the keys of a
\* dict, the characters of a str (which character is immaterial: no key of
\* the checks has one character)
Items(v) ==
    CASE v.t = "list" -> v.v
      [] v.t = "obj"  -> KeysOf(DOMAIN v.v)
      [] v.t = "str"  -> [i \in 1..Len(v.v) |-> JStr("c")]

\* timestamps datetime.fromisoformat accepts (after Z is replaced by +00:00)
IsoTimestamps == {"2026-02-10T12:00:00Z", "2026-02-10T12:00:01Z"}

IsIsoTimestamp(ts) == ts \in IsoTimestamps

\* The outcome of a run of checks: the errors appended, and whether an
\* exception ended the run.
Checked(errs) == [errors |-> errs, raised |-> FALSE]

Raised == [errors |-> <<>>, raised |-> TRUE]

\* r1 and then, unless r1 raised, r2
Then(r1, r2) ==
    IF r1.raised THEN r1
    ELSE [errors |-> r1.errors \o r2.errors, raised |-> r2.raised]

RECURSIVE Chain(_)
\* the checks of a sequence, in order, up to the first that raises
Chain(steps) ==
    IF steps = <<>> THEN Checked(<<>>) ELSE Then(Head(steps), Chain(Tail(steps)))

\* lines 62-65 without the check of the type against VALID_ACTION_TYPES
ActionErrorsAnyType(name, action) ==
    IF ~IsContainer(action) THEN Raised
    ELSE Checked(
        (IF ~Contains(action, "id")
         THEN << [file |-> name, kind |-> "action_missing_id"] >> ELSE <<>>)
        \o
        (IF ~Contains(action, "type")
         THEN << [file |-> name, kind |-> "action_missing_type"] >> ELSE <<>>))

\* lines 62-67, for one element of delta["actions"]
ActionErrors(name, action) ==
    IF ~IsContainer(action) THEN Raised
    ELSE Then(
        IF ~Contains(action, "id")
        THEN Checked(<< [file |-> name, kind |-> "action_missing_id"] >>)
        ELSE Checked(<<>>),
        IF ~Contains(action, "type")
        THEN Checked(<< [file |-> name, kind |-> "action_missing_type"] >>)
        ELSE IF ~IsIndexable(action) THEN Raised
        ELSE IF ~IsHashable(action.v["type"]) THEN Raised
        ELSE IF action.v["type"].t = "str"
                /\ action.v["type"].v \in DELTA_VALID_ACTION_TYPES
             THEN Checked(<<>>)
             ELSE Checked(<< [file |-> name, kind |-> "invalid_action_type"] >>))

\* lines 75-78, for one element of delta["messages"]
MessageErrors(name, msg) ==
    IF ~IsContainer(msg) THEN Raised
    ELSE Checked(
        (IF ~Contains(msg, "id")
         THEN << [file |-> name, kind |-> "message_missing_id"] >> ELSE <<>>)
        \o
        (IF ~Contains(msg, "content")
         THEN << [file |-> name, kind |-> "message_missing_content"] >> ELSE <<>>))

\* lines 100-101, for one element of objects["entries"]
ObjectEntryErrors(name, entry) ==
    IF ~IsContainer(entry) THEN Raised
    ELSE IF ~Contains(entry, "id")
         THEN Checked(<< [file |-> name, kind |-> "object_missing_id"] >>)
         ELSE Checked(<<>>)

\* lines 88-101, for delta["objects"]
ObjectsErrors(name, obj) ==
    IF obj.t # "obj"
    THEN Checked(<< [file |-> name, kind |-> "objects_not_object"] >>)
    ELSE
    LET world == Get(obj.v, "world", JNull)
        entries == Get(obj.v, "entries", JList(<<>>))
    IN  Chain(<<
            IF IsFalsy(world)
            THEN Checked(<< [file |-> name, kind |-> "invalid_objects_world"] >>)
            ELSE IF ~IsHashable(world) THEN Raised
            ELSE IF world.t = "str" /\ world.v \in VALID_WORLDS
                 THEN Checked(<<>>)
                 ELSE Checked(<< [file |-> name, kind |-> "invalid_objects_world"] >>),
            IF entries.t # "list"
            THEN Checked(<< [file |-> name, kind |-> "entries_not_array"] >>)
            ELSE Checked(<<>>),
            IF ~IsContainer(entries) THEN Raised
            ELSE Chain([i \in 1..Len(Items(entries)) |->
                            ObjectEntryErrors(name, Items(entries)[i])])
        >>)

\* The check of one list field (actions, messages) of the delta: lines 57-67
\* and 70-78.  Op gives the outcome for one element.
ListFieldErrors(name, delta, field, Op(_)) ==
    IF ~Contains(delta, field) THEN Checked(<<>>)
    ELSE IF ~IsIndexable(delta) THEN Raised
    ELSE IF delta.v[field].t # "list"
         THEN Checked(<< [file |-> name, kind |-> field \o "_not_array"] >>)
         ELSE Chain([i \in 1..Len(delta.v[field].v) |-> Op(delta.v[field].v[i])])

\* lines 41-49: agent_id and timestamp
IdentityErrors(name, delta) ==
    Then(
        IF ~Contains(delta, "agent_id")
        THEN Checked(<< [file |-> name, kind |-> "missing_agent_id"] >>)
        ELSE Checked(<<>>),
        IF ~Contains(delta, "timestamp")
        THEN Checked(<< [file |-> name, kind |-> "missing_timestamp"] >>)
        ELSE IF ~IsIndexable(delta) THEN Raised
        ELSE IF delta.v["timestamp"].t = "str" /\ IsIsoTimestamp(delta.v["timestamp"].v)
             THEN Checked(<<>>)
             ELSE Checked(<< [file |-> name, kind |-> "invalid_timestamp"] >>))

\* lines 41-54 without the check of lines 52-54 for delta content
RequiredFieldErrorsNoContentCheck(name, delta) == IdentityErrors(name, delta)

\* lines 41-54: the required fields, and at least one delta type
RequiredFieldErrors(name, delta) ==
    Then(
        IdentityErrors(name, delta),
        IF \A k \in {"actions", "messages", "agent_update", "objects", "activities"} :
              ~Contains(delta, k)
        THEN Checked(<< [file |-> name, kind |-> "no_delta_content"] >>)
        ELSE Checked(<<>>))

\* validate_delta, lines 40-101: the checks of the loaded delta
DeltaChecks(name, delta) ==
    LET ActErr(a) == ActionErrors(name, a)
        MsgErr(m) == MessageErrors(name, m)
    IN
    IF ~IsContainer(delta) THEN Raised
    ELSE Chain(<<
        RequiredFieldErrors(name, delta),
        ListFieldErrors(name, delta, "actions", ActErr),
        ListFieldErrors(name, delta, "messages", MsgErr),
        IF ~Contains(delta, "agent_update") THEN Checked(<<>>)
        ELSE IF ~IsIndexable(delta) THEN Raised
        ELSE IF delta.v["agent_update"].t # "obj"
             THEN Checked(<< [file |-> name, kind |-> "agent_update_not_object"] >>)
             ELSE IF ~Contains(delta.v["agent_update"], "id")
                  THEN Checked(<< [file |-> name, kind |-> "agent_update_missing_id"] >>)
                  ELSE Checked(<<>>),
        IF ~Contains(delta, "objects") THEN Checked(<<>>)
        ELSE IF ~IsIndexable(delta) THEN Raised
        ELSE ObjectsErrors(name, delta.v["objects"])
    >>)

\* validate_delta cut short after its first error
validate_delta_first_error_only(name, raw) ==
    IF raw = NotJson THEN Checked(<< [file |-> name, kind |-> "invalid_json"] >>)
    ELSE LET r == DeltaChecks(name, raw)
         IN  [r EXCEPT !.errors = IF @ = <<>> THEN <<>> ELSE << Head(@) >>]

\* validate_delta(path) for the file `name` of content `raw`: the errors it
\* appends, in order, and whether it ends with an exception.
validate_delta(name, raw) ==
    IF raw = NotJson THEN Checked(<< [file |-> name, kind |-> "invalid_json"] >>)
    ELSE DeltaChecks(name, raw)

-----------------------------------------------------------------------------
(* scripts/apply_deltas.py: apply_delta *)

\* load_json, lines 35-41: the document of the file, {} when there is no file
\* or json.load rejects it
load_json(file) == IF IsDocument(file) THEN file ELSE EmptyObject

\* dict.setdefault("_meta", {})[field] = value
SetMeta(doc, field, value) ==
    Update(doc, [_meta |-> Update(Get(doc, "_meta", EmptyObject),
                                  [f \in {field} |-> value])])

\* "key" in delta and delta["key"]: present and not an empty list or object
Truthy(delta, key) ==
    Has(delta, key) /\ delta[key] # <<>>

\* ApplyActions with the new actions put in front of the log
ApplyActionsInFront(s, delta, timestamp) ==
    IF ~Truthy(delta, "actions") THEN s
    ELSE LET actions_data == load_json(s.actions)
             d1 == IF ~Has(actions_data, "actions")
                   THEN Update(actions_data, [actions |-> <<>>]) ELSE actions_data
             d2 == Update(d1, [actions |-> delta["actions"] \o d1["actions"]])
         IN  [s EXCEPT !.actions = SetMeta(d2, "lastUpdate", timestamp)]

\* 1. Append actions to state/actions.json
ApplyActions(s, delta, timestamp) ==
    IF ~Truthy(delta, "actions") THEN s
    ELSE LET actions_data == load_json(s.actions)
             d1 == IF ~Has(actions_data, "actions")
                   THEN Update(actions_data, [actions |-> <<>>]) ELSE actions_data
             d2 == Update(d1, [actions |-> d1["actions"] \o delta["actions"]])
         IN  [s EXCEPT !.actions = SetMeta(d2, "lastUpdate", timestamp)]

\* 2. Append messages to state/chat.json
ApplyMessages(s, delta, timestamp) ==
    IF ~Truthy(delta, "messages") THEN s
    ELSE LET chat_data == load_json(s.chat)
             d1 == IF ~Has(chat_data, "messages")
                   THEN Update(chat_data, [messages |-> <<>>]) ELSE chat_data
             d2 == Update(d1, [messages |-> d1["messages"] \o delta["messages"]])
         IN  [s EXCEPT !.chat = SetMeta(d2, "lastUpdate", timestamp)]

\* FindAgent that finds no record
FindAgentNever(agents, update_id) == 0

\* the index of the first agent whose id is update_id, 0 when there is none
FindAgent(agents, update_id) ==
    LET hits == {i \in 1..Len(agents) : Get(agents[i], "id", "") = update_id}
    IN  IF hits = {} THEN 0 ELSE CHOOSE i \in hits : \A j \in hits : i <= j

\* UpsertAgent without the search for the existing record
UpsertAgentAlwaysAppends(agents, update) == Append(agents, update)

\* UpsertAgent with the record replaced by the update instead of updated
UpsertAgentReplacesRecord(agents, update) ==
    LET i == FindAgent(agents, update["id"])
    IN  IF i # 0 THEN [agents EXCEPT ![i] = update] ELSE Append(agents, update)

\* UpsertAgent that keeps the updated record only
UpsertAgentDropsOthers(agents, update) ==
    LET i == FindAgent(agents, update["id"])
    IN  IF i # 0 THEN << Update(agents[i], update) >> ELSE << update >>

\* the agents list after the upsert of lines 95-106
UpsertAgent(agents, update) ==
    LET i == FindAgent(agents, update["id"])
    IN  IF i # 0 THEN [agents EXCEPT ![i] = Update(agents[i], update)]
        ELSE Append(agents, update)

\* ApplyAgentUpdate without the assignment to _meta.agentCount of line 109
ApplyAgentUpdateKeepsCount(s, delta, timestamp) ==
    IF ~(Truthy(delta, "agent_update") /\ Has(delta["agent_update"], "id")) THEN s
    ELSE LET agents_data == load_json(s.agents)
             d1 == IF ~Has(agents_data, "agents")
                   THEN Update(agents_data, [agents |-> <<>>]) ELSE agents_data
             d2 == Update(d1, [agents |-> UpsertAgent(d1["agents"], delta["agent_update"])])
         IN  [s EXCEPT !.agents = SetMeta(d2, "lastUpdate", timestamp)]

\* 3. Upsert agent in state/agents.json
ApplyAgentUpdate(s, delta, timestamp) ==
    IF ~(Truthy(delta, "agent_update") /\ Has(delta["agent_update"], "id")) THEN s
    ELSE LET agents_data == load_json(s.agents)
             d1 == IF ~Has(agents_data, "agents")
                   THEN Update(agents_data, [agents |-> <<>>]) ELSE agents_data
             d2 == Update(d1, [agents |-> UpsertAgent(d1["agents"], delta["agent_update"])])
             d3 == SetMeta(d2, "lastUpdate", timestamp)
         IN  [s EXCEPT !.agents = SetMeta(d3, "agentCount", Len(d3["agents"]))]

\* 4. Append objects to worlds/{world}/objects.json
ApplyObjects(s, delta, agent_id, timestamp) ==
    IF ~Truthy(delta, "objects") THEN s
    ELSE LET obj_data == delta["objects"]
             world == Get(obj_data, "world", "hub")
             entries == Get(obj_data, "entries", <<>>)
         IN  IF entries = <<>> THEN s
             ELSE LET world_data == load_json(s.worlds[world])
                      d1 == IF ~Has(world_data, "objects")
                            THEN Update(world_data, [objects |-> <<>>]) ELSE world_data
                      existing_ids == {Get(o, "id", "") : o \in Range(d1["objects"])}
                      new_objects ==
                          SelectIdx(entries,
                                    {i \in 1..Len(entries) :
                                        Get(entries[i], "id", "") \notin existing_ids}, 1)
                      d2 == Update(d1, [objects |-> d1["objects"] \o new_objects])
                      d3 == SetMeta(d2, "lastUpdated", timestamp)
                      contributors == Get(d3["_meta"], "contributors", <<>>)
                      d4 == IF agent_id \notin Range(contributors)
                            THEN SetMeta(d3, "contributors", Append(contributors, agent_id))
                            ELSE d3
                  IN  [s EXCEPT !.worlds[world] = d4]

\* 5. Append activities to feed/activity.json
ApplyActivities(s, delta) ==
    IF ~Truthy(delta, "activities") THEN s
    ELSE LET activity_data == load_json(s.activity)
             d1 == IF ~Has(activity_data, "activities")
                   THEN Update(activity_data, [activities |-> <<>>]) ELSE activity_data
         IN  [s EXCEPT !.activity =
                 Update(d1, [activities |-> d1["activities"] \o delta["activities"]])]

\* what apply_delta returns: True when one of its five sections wrote a file
DeltaApplies(delta) ==
    /\ delta # EmptyObject
    /\ \/ Truthy(delta, "actions")
       \/ Truthy(delta, "messages")
       \/ Truthy(delta, "agent_update") /\ Has(delta["agent_update"], "id")
       \/ Truthy(delta, "objects") /\ Get(delta["objects"], "entries", <<>>) # <<>>
       \/ Truthy(delta, "activities")

\* The documents after apply_delta(delta); `now` is datetime.utcnow(), which
\* stands in for a timestamp the delta does not carry.
apply_delta(s, delta, now) ==
    IF delta = EmptyObject THEN s
    ELSE LET agent_id == Get(delta, "agent_id", "unknown")
             timestamp == Get(delta, "timestamp", now)
             s1 == ApplyActions(s, delta, timestamp)
             s2 == ApplyMessages(s1, delta, timestamp)
             s3 == ApplyAgentUpdate(s2, delta, timestamp)
             s4 == ApplyObjects(s3, delta, agent_id, timestamp)
         IN  ApplyActivities(s4, delta)

-----------------------------------------------------------------------------
(* scripts/apply_deltas.py: main *)

\* The inbox file names the model uses; their order in the sequence is their
\* order as paths, which is the order sorted(INBOX_DIR.glob("*.json")) gives.
FileNames == <<"a-first", "b-second">>

NameRank(name) == CHOOSE i \in 1..Len(FileNames) : FileNames[i] = name

RECURSIVE SortedNames(_)
\* sorted(INBOX_DIR.glob("*.json"))
SortedNames(names) ==
    IF names = {} THEN <<>>
    ELSE LET first == CHOOSE n \in names : \A m \in names : NameRank(n) <= NameRank(m)
         IN  <<first>> \o SortedNames(names \ {first})

\* ts = data.get("timestamp", "9999"): as a string "9999" sorts after every
\* timestamp of the years before 9999
SortKey(delta) == Get(delta, "timestamp", 9999)

\* x inserted into the sorted sequence `sorted`, after every element whose key is
\* not greater: the insertion that makes list.sort stable. key[x] is x's sort key.
InsertStable(sorted, x, key) ==
    LET before == {i \in 1..Len(sorted) : key[sorted[i]] <= key[x]}
    IN  SubSeq(sorted, 1, Cardinality(before)) \o <<x>>
        \o SubSeq(sorted, Cardinality(before) + 1, Len(sorted))

RECURSIVE StableSort(_, _)
\* list.sort(key=...): ascending by key, equal keys keep their order in s
StableSort(s, key) ==
    IF s = <<>> THEN <<>>
    ELSE InsertStable(StableSort(SubSeq(s, 1, Len(s) - 1), key), s[Len(s)], key)

\* SortDeltas without the sort by timestamp of line 177
SortDeltasByNameOnly(box) == SortedNames(DOMAIN box)

\* lines 161-177: the files of the inbox `box` in the order main applies them
SortDeltas(box) ==
    StableSort(SortedNames(DOMAIN box), [name \in DOMAIN box |-> SortKey(box[name])])

\* RemoveFiles unlinking every file of the inbox, processed or not
RemoveFilesAll(box, done) == EmptyObject

\* lines 186-187: the inbox after main has unlinked the processed files
RemoveFiles(box, done) ==
    [name \in DOMAIN box \ Range(done) |-> box[name]]

-----------------------------------------------------------------------------
(* The writers' deltas *)

Pos(x, z) == [x |-> x, z |-> z]

MoveAction(id, ts, agent, world, to) ==
    [id |-> id, timestamp |-> ts, agentId |-> agent, type |-> "move", world |-> world,
     data |-> [to |-> to]]

ChatMessage(id, ts, author) ==
    [id |-> id, timestamp |-> ts, world |-> "hub", content |-> "hello",
     author |-> [id |-> author, name |-> author], type |-> "chat"]

\* spawn "r2" in zone hub at (0,0)
SpawnR2 ==
    [agent_id |-> "r2", timestamp |-> 1,
     agent_update |-> [id |-> "r2", name |-> "r2", world |-> "hub",
                       position |-> Pos(0, 0), status |-> "active"]]

\* move entry "r1" -> (5,5) with the upsert of the new location
MoveR1 ==
    [agent_id |-> "r1", timestamp |-> 2,
     actions |-> << MoveAction("action-002", 2, "r1", "hub", Pos(5, 5)) >>,
     agent_update |-> [id |-> "r1", position |-> Pos(5, 5), action |-> "walking"]]

\* the same for "r2"
MoveR2 ==
    [agent_id |-> "r2", timestamp |-> 2,
     actions |-> << MoveAction("action-003", 2, "r2", "hub", Pos(5, 5)) >>,
     agent_update |-> [id |-> "r2", position |-> Pos(5, 5)]]

\* move entry "r1" -> (999,999), out of the bounds of hub, and no upsert
MoveOutOfBounds ==
    [agent_id |-> "r1", timestamp |-> 2,
     actions |-> << MoveAction("action-004", 2, "r1", "hub", Pos(999, 999)) >>]

\* an older move entry that takes "r1" to another zone, and no upsert
MoveToArena ==
    [agent_id |-> "r1", timestamp |-> 1,
     actions |-> << MoveAction("action-001", 1, "r1", "arena", Pos(5, 5)) >>]

\* valid chat messages of "r1" and one message of a producer that does not exist
ChatWithGhost ==
    [agent_id |-> "r1", timestamp |-> 1,
     messages |-> << ChatMessage("msg-001", 1, "r1"), ChatMessage("msg-002", 1, "r1"),
                     ChatMessage("msg-003", 1, "ghost") >>]

\* an object for the hub and a feed entry, from "r2"
PlaceObject ==
    [agent_id |-> "r2", timestamp |-> 1,
     objects |-> [world |-> "hub", entries |-> << [id |-> "obj-001", name |-> "Test"] >>],
     activities |-> << [id |-> "act-001", agentId |-> "r2"] >>]

\* objects for the hub: one whose id PlaceObject has used, and two new ones
\* that share an id
PlaceTwins ==
    [agent_id |-> "r1", timestamp |-> 2,
     objects |-> [world |-> "hub",
                  entries |-> << [id |-> "obj-001", name |-> "Duplicate"],
                                 [id |-> "obj-002", name |-> "New"],
                                 [id |-> "obj-002", name |-> "Twin"] >>]]

\* a delta whose only payload is an empty list
EmptyActions == [agent_id |-> "r1", timestamp |-> 1, actions |-> <<>>]

Deltas ==
    {SpawnR2, MoveR1, MoveR2, MoveOutOfBounds, MoveToArena, ChatWithGhost, PlaceObject,
     PlaceTwins, EmptyActions, EmptyObject}

\* datetime.utcnow() at the time of a pass
Clock == {3}

-----------------------------------------------------------------------------
(* The delta files as validate_delta.py reads them *)

\* json.load of the file a writer's delta is saved in: strings, numbers, lists
\* and objects as the validator tells them apart
DeltaFile(delta) ==
    LET \* the ISO-8601 text of the writers' timestamps 1 and 2
        IsoOf(ts) == IF ts = 1 THEN "2026-02-10T12:00:00Z" ELSE "2026-02-10T12:00:01Z"
        \* the string fields of a record among `keys`
        JStrings(f, keys) == [k \in keys \cap DOMAIN f |-> JStr(f[k])]
        \* a field of another type, when the record has it
        JField(f, key, Encode(_)) ==
            IF Has(f, key) THEN [k \in {key} |-> Encode(f[key])] ELSE EmptyObject
        JTimestamp(ts) == JStr(IsoOf(ts))
        JPos(p) == JObj([k \in DOMAIN p |-> JNum(p[k])])
        JActionData(data) == JObj([k \in DOMAIN data |-> JPos(data[k])])
        JAction(a) ==
            JObj(Update(JStrings(a, {"id", "agentId", "type", "world"}),
                        Update(JField(a, "timestamp", JTimestamp),
                               JField(a, "data", JActionData))))
        JAuthor(author) == JObj(JStrings(author, {"id", "name"}))
        JMessage(m) ==
            JObj(Update(JStrings(m, {"id", "world", "content", "type"}),
                        Update(JField(m, "timestamp", JTimestamp),
                               JField(m, "author", JAuthor))))
        JAgentUpdate(u) ==
            JObj(Update(JStrings(u, {"id", "name", "world", "status", "action"}),
                        JField(u, "position", JPos)))
        JEntry(e) == JObj(JStrings(e, {"id", "name", "agentId"}))
        JEntries(entries) == JList([i \in 1..Len(entries) |-> JEntry(entries[i])])
        JActions(actions) == JList([i \in 1..Len(actions) |-> JAction(actions[i])])
        JMessages(messages) == JList([i \in 1..Len(messages) |-> JMessage(messages[i])])
        JObjects(o) == JObj(Update(JStrings(o, {"world"}), JField(o, "entries", JEntries)))
    IN  JObj(Update(JStrings(delta, {"agent_id"}),
             Update(JField(delta, "timestamp", JTimestamp),
             Update(JField(delta, "actions", JActions),
             Update(JField(delta, "messages", JMessages),
             Update(JField(delta, "agent_update", JAgentUpdate),
             Update(JField(delta, "objects", JObjects),
                    JField(delta, "activities", JEntries))))))))

-----------------------------------------------------------------------------
(* The state machine *)

\* The documents of the test fixture (test_state_integrity.py, setUp): one
\* agent in the hub, empty logs.
InitStore ==
    [agents   |-> [agents |-> << [id |-> "r1", name |-> "r1", world |-> "hub",
                                  position |-> Pos(0, 0), status |-> "active"] >>,
                   _meta  |-> [lastUpdate |-> 0, agentCount |-> 1]],
     actions  |-> [actions |-> <<>>, _meta |-> [lastUpdate |-> 0]],
     chat     |-> [messages |-> <<>>, _meta |-> [lastUpdate |-> 0]],
     worlds   |-> [w \in {"hub"} |->
                      [objects |-> <<>>,
                       _meta |-> [lastUpdated |-> 0, contributors |-> <<>>]]],
     activity |-> [activities |-> <<>>],
     \* the fixture writes none of these four
     trades     |-> Missing,
     inventory  |-> Missing,
     npcs       |-> Missing,
     game_state |-> Missing]

NoProbe == [world |-> "hub", pos |-> Pos(0, 0), checked |-> FALSE, errors |-> <<>>]

\* no run of validate_delta.py
NoGate == [files |-> EmptyObject, pc |-> "none", todo |-> <<>>, errors |-> <<>>,
           raised |-> FALSE, exit |-> -1]

\* no workflow has been triggered
NoWorkflow == [holder |-> "none", run |-> EmptyObject, accepted |-> {}, triggers |-> 0]

\* no run of validate_action.py --audit on files of its own
NoAudit == [files |-> EmptyObject, pc |-> "none", errors |-> <<>>]

\* no script has been called
NoWriter ==
    [calls |-> 0, script |-> "none", args |-> EmptyObject, fault |-> "none",
     ended |-> "none"]

Init ==
    /\ store = InitStore
    /\ inbox = EmptyObject
    /\ pc = "idle"
    /\ queue = <<>>
    /\ processed = <<>>
    /\ passInbox = EmptyObject
    /\ passStore = InitStore
    /\ order = <<>>
    /\ pre = InitStore
    /\ lastFile = ""
    /\ lastOk = FALSE
    /\ applied = {}
    /\ submits = 0
    /\ findings = <<>>
    /\ audited = FALSE
    /\ probe = NoProbe
    /\ gate = NoGate
    /\ audit = NoAudit
    /\ wf = NoWorkflow
    /\ writer = NoWriter
    /\ interrupts = 0

\* A writer puts a delta file into the inbox (between passes: a pass works on
\* the checkout it was started on).
Submit(name, delta) ==
    /\ pc \in {"idle", "done"}
    /\ submits < MaxSubmits
    /\ name \notin DOMAIN inbox
    /\ inbox' = Update(inbox, [n \in {name} |-> delta])
    /\ submits' = submits + 1
    /\ pc' = "idle"
    \* the record of the latest pass ends with the state that pass left
    /\ processed' = <<>>
    /\ passInbox' = EmptyObject
    /\ passStore' = store
    /\ order' = <<>>
    /\ pre' = store
    /\ lastFile' = ""
    /\ lastOk' = FALSE
    /\ UNCHANGED <<store, queue, applied, findings, audited, probe, gate, audit, wf,
                   writer, interrupts>>

\* main, lines 157-177: list the inbox and sort the deltas
MergeStart ==
    /\ pc \in {"idle", "done"}
    /\ passInbox' = inbox
    /\ passStore' = store
    /\ queue' = SortDeltas(inbox)
    /\ processed' = <<>>
    /\ order' = <<>>
    /\ pre' = store
    /\ lastFile' = ""
    /\ lastOk' = FALSE
    /\ pc' = IF inbox = EmptyObject THEN "done" ELSE "apply"
    /\ UNCHANGED <<store, inbox, applied, submits, findings, audited, probe, gate, audit, wf,
                   writer, interrupts>>

\* main, lines 179-183: one turn of the loop, the whole of apply_delta
ApplyNext ==
    /\ pc = "apply"
    /\ queue # <<>>
    /\ \E now \in Clock :
         LET name == Head(queue)
             delta == inbox[name]
             ok == DeltaApplies(delta)
         IN  /\ store' = apply_delta(store, delta, now)
             /\ pre' = store
             /\ lastFile' = name
             /\ lastOk' = ok
             /\ processed' = IF ok THEN Append(processed, name) ELSE processed
             /\ applied' = IF ok THEN applied \cup {delta} ELSE applied
             /\ order' = Append(order, name)
             /\ audited' = (audited /\ ~ok)
    /\ queue' = Tail(queue)
    /\ pc' = IF Tail(queue) = <<>> THEN "remove" ELSE "apply"
    /\ UNCHANGED <<inbox, passInbox, passStore, submits, findings, probe, gate, audit, wf,
                   writer, interrupts>>

\* main, lines 185-203: unlink the processed files and exit
RemoveProcessed ==
    /\ pc = "remove"
    /\ inbox' = RemoveFiles(inbox, processed)
    /\ pc' = "done"
    /\ UNCHANGED <<store, queue, processed, passInbox, passStore, order, pre, lastFile,
                   lastOk, applied, submits, findings, audited, probe, gate, audit, wf,
                   writer, interrupts>>

\* validate_action.py --audit: the auditor reads the documents of its checkout,
\* which are the documents a finished pass has left, and reports
Audit ==
    /\ pc \in {"idle", "done"}
    /\ ~audited
    /\ findings' = audit_state_consistency(store)
    /\ audited' = TRUE
    /\ UNCHANGED <<store, inbox, pc, queue, processed, passInbox, passStore, order, pre,
                   lastFile, lastOk, applied, submits, probe, gate, audit, wf,
                   writer, interrupts>>

Next ==
    \/ \E name \in Range(FileNames), delta \in Deltas : Submit(name, delta)
    \/ MergeStart
    \/ ApplyNext
    \/ RemoveProcessed
    \/ Audit

Spec == Init /\ [][Next]_vars

-----------------------------------------------------------------------------
(* validate_position on its own: every world of the table and one world that *)
(* is not in it, every position within MaxCoord of the origin                *)

MaxCoord == 16


PosInit ==
    /\ store = InitStore
    /\ inbox = EmptyObject
    /\ pc = "idle"
    /\ queue = <<>>
    /\ processed = <<>>
    /\ passInbox = EmptyObject
    /\ passStore = InitStore
    /\ order = <<>>
    /\ pre = InitStore
    /\ lastFile = ""
    /\ lastOk = FALSE
    /\ applied = {}
    /\ submits = 0
    /\ findings = <<>>
    /\ audited = FALSE
    /\ probe \in [world : DOMAIN WORLD_BOUNDS \cup {"narnia"},
                  pos : {Pos(x, z) : x \in -MaxCoord..MaxCoord, z \in -MaxCoord..MaxCoord}
                        \cup {[z |-> z] : z \in -MaxCoord..MaxCoord},
                  checked : {FALSE},
                  errors : {<<>>}]
    /\ gate = NoGate
    /\ audit = NoAudit
    /\ wf = NoWorkflow
    /\ writer = NoWriter
    /\ interrupts = 0

\* validate_position(pos, world, context) appends its errors
CheckPosition ==
    /\ ~probe.checked
    /\ probe' = [probe EXCEPT !.checked = TRUE,
                              !.errors = validate_position(probe.pos, probe.world, "probe")]
    /\ UNCHANGED <<store, inbox, pc, queue, processed, passInbox, passStore, order, pre,
                   lastFile, lastOk, applied, submits, findings, audited, gate, audit, wf,
                   writer, interrupts>>

PosNext == CheckPosition

PosSpec == PosInit /\ [][PosNext]_vars

-----------------------------------------------------------------------------
(* validate_delta.py on its own: the gate run on an inbox of one or two     *)
(* files of any content                                                      *)

IsoNow == "2026-02-10T12:00:00Z"

GoodAction == JObj([id |-> JStr("action-001"), type |-> JStr("move")])

GoodDelta ==
    JObj([agent_id |-> JStr("r1"), timestamp |-> JStr(IsoNow),
          actions |-> JList(<< GoodAction >>)])

\* The contents of a delta file: every JSON object put together from the
\* options, and contents that are no JSON object or no JSON at all.
\* Each field of a delta is absent or has one of the values listed for it.
RawDeltas ==
    LET AgentIdOptions == {EmptyObject, [agent_id |-> JStr("r1")]}

        TimestampOptions ==
            {EmptyObject,
             [timestamp |-> JStr(IsoNow)],
             [timestamp |-> JStr("yesterday")],
             [timestamp |-> JNum(5)]}

        ActionsOptions ==
            {EmptyObject,
             [actions |-> JList(<< GoodAction >>)],
             [actions |-> JList(<< GoodAction,
                                   JObj([id |-> JStr("action-002"), type |-> JStr("fly")]) >>)],
             [actions |-> JList(<< JObj(EmptyObject) >>)],
             [actions |-> JList(<< JNum(5) >>)],
             [actions |-> JList(<< JObj([id |-> JStr("action-001"),
                                         type |-> JList(<< JStr("move") >>)]) >>)],
             [actions |-> JStr("move")]}

        MessagesOptions ==
            {EmptyObject,
             [messages |-> JList(<< JObj([id |-> JStr("msg-001"), content |-> JStr("hi")]) >>)],
             [messages |-> JList(<< JObj([id |-> JStr("msg-001")]), JNull >>)]}

        AgentUpdateOptions ==
            {EmptyObject,
             [agent_update |-> JObj([id |-> JStr("r1"), status |-> JStr("active")])],
             [agent_update |-> JObj([status |-> JStr("active")])],
             [agent_update |-> JStr("r1")]}

        ObjectsOptions ==
            {EmptyObject,
             [objects |-> JObj([world |-> JStr("hub"),
                                entries |-> JList(<< JObj([id |-> JStr("obj-001")]) >>)])],
             [objects |-> JObj([world |-> JStr("narnia"), entries |-> JList(<<>>)])],
             [objects |-> JObj([entries |-> JList(<< JObj([type |-> JStr("sign")]) >>)])],
             [objects |-> JObj([world |-> JList(<< JStr("hub") >>)])],
             [objects |-> JObj([world |-> JStr("hub"), entries |-> JNum(5)])],
             [objects |-> JObj([world |-> JStr("hub"), entries |-> JStr("ab")])],
             [objects |-> JList(<<>>)]}

        ActivitiesOptions == {EmptyObject, [activities |-> JList(<<>>)]}
    IN  {JObj(Update(a, Update(t, Update(ac, Update(m, Update(u, Update(o, v))))))) :
            a \in AgentIdOptions, t \in TimestampOptions, ac \in ActionsOptions,
            m \in MessagesOptions, u \in AgentUpdateOptions, o \in ObjectsOptions,
            v \in ActivitiesOptions}
        \cup {NotJson, JNull, JNum(5), JList(<<>>), JList(<< JStr("timestamp") >>),
              JStr("agent_id"), JStr("actions")}

\* The inboxes: empty, one file of any content, or two files of which the
\* first and the second hold one of a few contents.
GateInboxes ==
    LET FirstFiles ==
            {GoodDelta, NotJson, JObj(EmptyObject),
             JObj([agent_id |-> JStr("r1"), timestamp |-> JStr(IsoNow),
                   actions |-> JList(<< JNum(5) >>)])}
        SecondFiles == {GoodDelta, NotJson, JObj([agent_id |-> JStr("r2")])}
    IN  {EmptyObject}
        \cup {[n \in {"a-first"} |-> raw] : raw \in RawDeltas}
        \cup {[n \in {"a-first", "b-second"} |-> IF n = "a-first" THEN raw ELSE second] :
                 raw \in FirstFiles, second \in SecondFiles}

GateInit ==
    /\ store = InitStore
    /\ inbox = EmptyObject
    /\ pc = "idle"
    /\ queue = <<>>
    /\ processed = <<>>
    /\ passInbox = EmptyObject
    /\ passStore = InitStore
    /\ order = <<>>
    /\ pre = InitStore
    /\ lastFile = ""
    /\ lastOk = FALSE
    /\ applied = {}
    /\ submits = 0
    /\ findings = <<>>
    /\ audited = FALSE
    /\ probe = NoProbe
    /\ audit = NoAudit
    /\ wf = NoWorkflow
    /\ writer = NoWriter
    /\ interrupts = 0
    /\ gate \in [files : GateInboxes, pc : {"start"}, todo : {<<>>}, errors : {<<>>},
                 raised : {FALSE}, exit : {-1}]

\* validate_delta.main, lines 107-113: list the inbox; exit 0 when it is empty
GateStart ==
    /\ gate.pc = "start"
    /\ gate' = IF DOMAIN gate.files = {}
               THEN [gate EXCEPT !.pc = "exit", !.exit = 0]
               ELSE [gate EXCEPT !.pc = "loop", !.todo = SortedNames(DOMAIN gate.files)]
    /\ UNCHANGED <<store, inbox, pc, queue, processed, passInbox, passStore, order, pre,
                   lastFile, lastOk, applied, submits, findings, audited, probe, audit, wf,
                   writer, interrupts>>

\* main, lines 115-116: one call of validate_delta.  An exception it raises
\* is caught nowhere: the interpreter prints the traceback and exits with 1.
GateValidate ==
    /\ gate.pc = "loop"
    /\ gate.todo # <<>>
    /\ LET name == Head(gate.todo)
           r == validate_delta(name, gate.files[name])
       IN  gate' = IF r.raised
                   THEN [gate EXCEPT !.errors = @ \o r.errors, !.raised = TRUE,
                                     !.pc = "exit", !.exit = 1]
                   ELSE [gate EXCEPT !.errors = @ \o r.errors, !.todo = Tail(@),
                                     !.pc = IF Tail(gate.todo) = <<>> THEN "report"
                                            ELSE "loop"]
    /\ UNCHANGED <<store, inbox, pc, queue, processed, passInbox, passStore, order, pre,
                   lastFile, lastOk, applied, submits, findings, audited, probe, audit, wf,
                   writer, interrupts>>

\* main, lines 118-125: exit 1 when there are errors, else 0
GateExit ==
    /\ gate.pc = "report"
    /\ gate' = [gate EXCEPT !.pc = "exit", !.exit = IF gate.errors # <<>> THEN 1 ELSE 0]
    /\ UNCHANGED <<store, inbox, pc, queue, processed, passInbox, passStore, order, pre,
                   lastFile, lastOk, applied, submits, findings, audited, probe, audit, wf,
                   writer, interrupts>>

GateNext ==
    \/ GateStart
    \/ GateValidate
    \/ GateExit

GateSpec == GateInit /\ [][GateNext]_vars

-----------------------------------------------------------------------------
(* The merge engine on documents whose actions log is full: the writers     *)
(* that commit to the documents themselves keep the last LogCap entries     *)
(* (agent_runtime.execute_action, lines 290-292)                            *)

LogCap == 100

\* the fixture with an actions log of LogCap entries
FullStore ==
    LET FullLog ==
            [i \in 1..LogCap |-> MoveAction("old-" \o ToString(i), 0, "r1", "hub", Pos(0, 0))]
    IN  [InitStore EXCEPT !.actions = [actions |-> FullLog, _meta |-> [lastUpdate |-> 0]]]

CapInit ==
    /\ store = FullStore
    /\ inbox = EmptyObject
    /\ pc = "idle"
    /\ queue = <<>>
    /\ processed = <<>>
    /\ passInbox = EmptyObject
    /\ passStore = FullStore
    /\ order = <<>>
    /\ pre = FullStore
    /\ lastFile = ""
    /\ lastOk = FALSE
    /\ applied = {}
    /\ submits = 0
    /\ findings = <<>>
    /\ audited = FALSE
    /\ probe = NoProbe
    /\ gate = NoGate
    /\ audit = NoAudit
    /\ wf = NoWorkflow
    /\ writer = NoWriter
    /\ interrupts = 0

\* the merge engine alone: writers and passes of apply_deltas.main
CapNext ==
    \/ \E name \in Range(FileNames),
          delta \in {MoveR1, MoveOutOfBounds, ChatWithGhost, EmptyActions} :
          Submit(name, delta)
    \/ MergeStart
    \/ ApplyNext
    \/ RemoveProcessed

CapSpec == CapInit /\ [][CapNext]_vars

-----------------------------------------------------------------------------
(* Merge passes over a store in which a canonical document may be damaged   *)

\* the canonical documents under state/ a pass reads and writes
CanonicalFiles == {"agents", "actions", "chat"}

DamagedInit ==
    \* the fixture with each canonical document as it is, or unreadable
    /\ store \in {[InitStore EXCEPT !.agents = a, !.actions = b, !.chat = c] :
                     a \in {InitStore.agents, Malformed},
                     b \in {InitStore.actions, Malformed, Missing},
                     c \in {InitStore.chat, Malformed}}
    /\ inbox = EmptyObject
    /\ pc = "idle"
    /\ queue = <<>>
    /\ processed = <<>>
    /\ passInbox = EmptyObject
    /\ passStore = store
    /\ order = <<>>
    /\ pre = store
    /\ lastFile = ""
    /\ lastOk = FALSE
    /\ applied = {}
    /\ submits = 0
    /\ findings = <<>>
    /\ audited = FALSE
    /\ probe = NoProbe
    /\ gate = NoGate
    /\ audit = NoAudit
    /\ wf = NoWorkflow
    /\ writer = NoWriter
    /\ interrupts = 0

DamagedNext ==
    \/ \E name \in Range(FileNames), delta \in {MoveR1, ChatWithGhost, SpawnR2} :
          Submit(name, delta)
    \/ MergeStart
    \/ ApplyNext
    \/ RemoveProcessed

DamagedSpec == DamagedInit /\ [][DamagedNext]_vars

-----------------------------------------------------------------------------
(* validate_action.py --audit on its own: the audit run on files of state/  *)
(* of any content                                                            *)

MaxPopulation == 3

\* the _meta.lastUpdate the documents carry unless said otherwise, in seconds
BaseStamp == 3600

\* The contents the audit may find in each file of state/.
\*   agents.json: r1 alone, or with n1 in the hub or in the arena, or no file
\*   actions.json: no entry, or one entry more than the detailed checks read,
\*     all by r1 or one of them by "ghost", an agent no record has
\*   trades.json: no file, or a document of any age, or one without a lastUpdate
\*   npcs.json: no file, or npcs that have an agent record or not, and agree
\*     with it or not, or carry no world
\*   game_state.json: no file, or the hub with a population rollup; game_tick
\*     stamps the document
AuditInputs ==
    LET Agent(id, world) ==
            [id |-> id, name |-> id, world |-> world, position |-> Pos(0, 0),
             status |-> "active"]
        AgentsDoc(agents) ==
            [agents |-> agents,
             _meta |-> [lastUpdate |-> BaseStamp, agentCount |-> Len(agents)]]
        \* the i-th entry of a log: an emote of the agent
        EmoteBy(i, agent) ==
            [id |-> "action-" \o ToString(i), timestamp |-> i, agentId |-> agent,
             type |-> "emote", world |-> "hub", data |-> [emote |-> "wave"]]
        \* a log of n entries by r1, but for the k-th
        LogWithGhostAt(n, k) ==
            [actions |-> [i \in 1..n |-> EmoteBy(i, IF i = k THEN "ghost" ELSE "r1")],
             _meta |-> [lastUpdate |-> BaseStamp]]
        Npc(id, world) ==
            [id |-> id, name |-> id, world |-> world, position |-> Pos(0, 0)]
        NpcsDoc(npcs) == [npcs |-> npcs, _meta |-> [lastUpdate |-> BaseStamp]]
    IN  [agents :
            {AgentsDoc(<< Agent("r1", "hub") >>),
             AgentsDoc(<< Agent("r1", "hub"), Agent("n1", "hub") >>),
             AgentsDoc(<< Agent("r1", "hub"), Agent("n1", "arena") >>),
             Missing},
         actions :
            {LogWithGhostAt(0, 0),
             LogWithGhostAt(RecentWindow + 1, 0),
             LogWithGhostAt(RecentWindow + 1, 1),
             LogWithGhostAt(RecentWindow + 1, 2),
             LogWithGhostAt(RecentWindow + 1, RecentWindow + 1)},
         chat : {[messages |-> <<>>, _meta |-> [lastUpdate |-> BaseStamp]]},
         trades :
            {Missing, [activeTrades |-> <<>>, _meta |-> EmptyObject]}
            \cup {[activeTrades |-> <<>>, _meta |-> [lastUpdate |-> t]] :
                     t \in {0, BaseStamp, BaseStamp + StaleSeconds,
                            BaseStamp + StaleSeconds + 1}},
         inventory :
            {Missing,
             [inventories |-> [a \in {"r1"} |->
                                  [items |-> << [id |-> "item-001", rarity |-> "rare"] >>]],
              _meta |-> [lastUpdate |-> BaseStamp]]},
         npcs :
            {Missing,
             NpcsDoc(<<>>),
             NpcsDoc(<< Npc("n1", "hub") >>),
             NpcsDoc(<< Npc("n1", "arena") >>),
             NpcsDoc(<< [id |-> "n1", name |-> "n1", position |-> Pos(0, 0)] >>),
             NpcsDoc(<< Npc("n2", "hub") >>),
             NpcsDoc(<< Npc("n1", "hub"), Npc("n2", "arena") >>)},
         game_state :
            {Missing}
            \cup {[worlds |-> [w \in {"hub"} |-> [population |-> p]],
                   _meta |-> [lastUpdate |-> t]] :
                     p \in 0..MaxPopulation, t \in {BaseStamp, BaseStamp + StaleSeconds + 1}}]

AuditInit ==
    /\ store = InitStore
    /\ inbox = EmptyObject
    /\ pc = "idle"
    /\ queue = <<>>
    /\ processed = <<>>
    /\ passInbox = EmptyObject
    /\ passStore = InitStore
    /\ order = <<>>
    /\ pre = InitStore
    /\ lastFile = ""
    /\ lastOk = FALSE
    /\ applied = {}
    /\ submits = 0
    /\ findings = <<>>
    /\ audited = FALSE
    /\ probe = NoProbe
    /\ gate = NoGate
    /\ wf = NoWorkflow
    /\ writer = NoWriter
    /\ interrupts = 0
    /\ audit \in [files : AuditInputs, pc : {"ready"}, errors : {<<>>}]

\* AuditRun that repairs what it finds: it writes a game_state.json whose
\* population rollup of the hub is the number of agents counted there
AuditRunRepairs ==
    /\ audit.pc = "ready"
    /\ audit' = [audit EXCEPT
                    !.pc = "done",
                    !.errors = audit_state_consistency(audit.files),
                    !.files.game_state =
                        IF IsDocument(@)
                        THEN [@ EXCEPT !["worlds"]["hub"]["population"] =
                                 ActualPopulation(LoadedOrNone(audit.files.agents), "hub")]
                        ELSE @]
    /\ UNCHANGED <<store, inbox, pc, queue, processed, passInbox, passStore, order, pre,
                   lastFile, lastOk, applied, submits, findings, audited, probe, gate, wf,
                   writer, interrupts>>

\* main with --audit, lines 657-659: the whole of audit_state_consistency
AuditRun ==
    /\ audit.pc = "ready"
    /\ audit' = [audit EXCEPT !.pc = "done",
                              !.errors = audit_state_consistency(audit.files)]
    /\ UNCHANGED <<store, inbox, pc, queue, processed, passInbox, passStore, order, pre,
                   lastFile, lastOk, applied, submits, findings, audited, probe, gate, wf,
                   writer, interrupts>>

AuditNext == AuditRun

AuditSpec == AuditInit /\ [][AuditNext]_vars

-----------------------------------------------------------------------------
(* Merge passes that do not reach their end: the process is stopped (the    *)
(* runner is cancelled or times out, or a later apply_delta call raises)    *)
(* after apply_delta has saved documents and before main unlinks the files  *)

MaxInterrupts == 2

\* The pass stops.  What apply_delta has saved is on disk (save_json, lines
\* 44-48, at the end of each section) and the files of the inbox are all
\* still there: they are unlinked only after the loop (lines 185-188).
Interrupt ==
    /\ pc \in {"apply", "remove"}
    /\ interrupts < MaxInterrupts
    /\ interrupts' = interrupts + 1
    /\ pc' = "idle"
    /\ queue' = <<>>
    /\ processed' = <<>>
    /\ UNCHANGED <<store, inbox, passInbox, passStore, order, pre, lastFile, lastOk,
                   applied, submits, findings, audited, probe, gate, audit, wf, writer>>

\* each writer puts its delta into the inbox once
InterruptedNext ==
    \/ \E name \in Range(FileNames), delta \in {MoveR1, SpawnR2, ChatWithGhost} :
          /\ delta \notin applied
          /\ \A other \in DOMAIN inbox : inbox[other] # delta
          /\ Submit(name, delta)
    \/ MergeStart
    \/ ApplyNext
    \/ RemoveProcessed
    \/ Interrupt

InterruptedSpec == Init /\ [][InterruptedNext]_vars

-----------------------------------------------------------------------------
(* The auditor on logs longer than the window of its detailed checks: logs  *)
(* of RecentWindow + 2 entries in which one entry may repeat the id of an   *)
(* earlier one                                                              *)

LogInit ==
    LET positions == 1..(RecentWindow + 2)
        \* the id of entry i, when entry `second` repeats the id of entry `first`
        IdAt(prefix, i, first, second) ==
            prefix \o ToString(IF i = second THEN first ELSE i)
        ActionsWith(first, second) ==
            [actions |-> [i \in positions |->
                            [id |-> IdAt("action-", i, first, second), timestamp |-> i,
                             agentId |-> "r1", type |-> "emote", world |-> "hub",
                             data |-> [emote |-> "wave"]]],
             _meta |-> [lastUpdate |-> BaseStamp]]
        ChatWith(first, second) ==
            [messages |-> [i \in positions |->
                             ChatMessage(IdAt("msg-", i, first, second), i, "r1")],
             _meta |-> [lastUpdate |-> BaseStamp]]
        \* first = second: no entry repeats an id
        Pairs == {p \in positions \X positions : p[1] <= p[2]}
        Inputs ==
            {[agents |-> [InitStore.agents EXCEPT !["_meta"]["lastUpdate"] = BaseStamp],
              actions |-> ActionsWith(a[1], a[2]),
              chat |-> ChatWith(1, c),
              trades |-> Missing, inventory |-> Missing, npcs |-> Missing,
              game_state |-> Missing] : a \in Pairs, c \in positions}
    IN  /\ store = InitStore
        /\ inbox = EmptyObject
        /\ pc = "idle"
        /\ queue = <<>>
        /\ processed = <<>>
        /\ passInbox = EmptyObject
        /\ passStore = InitStore
        /\ order = <<>>
        /\ pre = InitStore
        /\ lastFile = ""
        /\ lastOk = FALSE
        /\ applied = {}
        /\ submits = 0
        /\ findings = <<>>
        /\ audited = FALSE
        /\ probe = NoProbe
        /\ gate = NoGate
        /\ wf = NoWorkflow
        /\ writer = NoWriter
        /\ interrupts = 0
        /\ audit \in [files : Inputs, pc : {"ready"}, errors : {<<>>}]

LogSpec == LogInit /\ [][AuditNext]_vars

-----------------------------------------------------------------------------
(* scripts/agent_runtime.py: execute_action *)

\* the entries of actions.json in the documents s
ActionsLog(s) == Get(load_json(s.actions), "actions", <<>>)

MaxActionNumber == 9

\* lines 216-222: the id of the next action; ActionNumber is
\* int(last_id.split("-")[1]) for the ids the model's logs hold, "action-002"
\* of a delta, "action-3" of the runtime
NextActionId(actions) ==
    LET ActionNumber(id) ==
            CHOOSE n \in 1..MaxActionNumber :
                id \in {"action-" \o ToString(n), "action-00" \o ToString(n)}
        log == Get(actions, "actions", <<>>)
    IN  IF log # <<>>
        THEN "action-" \o ToString(ActionNumber(log[Len(log)]["id"]) + 1)
        ELSE "action-001"

\* what can go wrong outside the script while execute_action runs: nothing,
\* the write of actions.json (an OSError of open or json.dump), or one of the
\* git commands (a CalledProcessError of subprocess.run)
WriterFaults == {"none", "write_actions", "git"}

\* The documents after execute_action(agent_id, action_type, action_data), for
\* the action types move and emote, and what it returned; timestamp is
\* get_timestamp().  Every exception ends the call in the handler of lines
\* 309-311, which returns False and leaves the files as they were written.
execute_action(s, agent_id, action_type, action_data, timestamp, fault) ==
    LET agents == s.agents
        actions == s.actions
        failed(t) == [store |-> t, returned |-> FALSE]
    IN  IF ~(IsDocument(agents) /\ IsDocument(actions) /\ Has(agents, "agents"))
        THEN failed(s)
        ELSE
        LET i == FindAgent(agents["agents"], agent_id)
        IN  IF i = 0 THEN failed(s)
            ELSE
            LET agent == agents["agents"][i]
                action_entry ==
                    [id |-> NextActionId(actions), timestamp |-> timestamp,
                     agentId |-> agent_id, type |-> action_type, world |-> agent["world"],
                     data |-> action_data]
                moved == Update(agent, [position |-> action_data["to"],
                                        action |-> "walking", lastUpdate |-> timestamp])
                emoted == Update(agent, [action |-> action_data["emote"],
                                         lastUpdate |-> timestamp])
                \* move: agents.json is written before its _meta is stamped
                agents1 ==
                    IF action_type = "move"
                    THEN Update(agents, [agents |-> [agents["agents"] EXCEPT ![i] = moved]])
                    ELSE IF action_type = "emote"
                    THEN SetMeta(Update(agents,
                                        [agents |-> [agents["agents"] EXCEPT ![i] = emoted]]),
                                 "lastUpdate", timestamp)
                    ELSE agents
                s1 == [s EXCEPT !.agents = agents1]
            IN  IF ~Has(agents, "_meta")
                \* KeyError of agents["_meta"]: after the write for a move
                \* (lines 240-241), before it for an emote (lines 282-283)
                THEN failed(IF action_type = "move" THEN s1 ELSE s)
                ELSE IF ~(Has(actions, "actions") /\ Has(actions, "_meta"))
                \* KeyError of lines 286-287
                THEN failed(s1)
                ELSE IF fault = "write_actions" THEN failed(s1)
                ELSE
                LET log == Append(actions["actions"], action_entry)
                    actions1 == SetMeta(Update(actions, [actions |-> LastN(log, LogCap)]),
                                        "lastUpdate", timestamp)
                IN  [store |-> [s1 EXCEPT !.actions = actions1],
                     returned |-> fault = "none"]

-----------------------------------------------------------------------------
(* scripts/spawn_agent.py *)

\* f"action-{count + 1:03d}"
get_next_action_id(actions) ==
    LET n == actions["_meta"]["count"] + 1
    IN  "action-" \o (IF n < 10 THEN "00" ELSE IF n < 100 THEN "0" ELSE "") \o ToString(n)

\* validate_agent_id that does not look the id up in agents.json
AgentIdAcceptedUnseen(agent_id, agents) ==
    agent_id # "" /\ agent_id \in {"ghost", "n1", "n2", "r1", "r2"}

\* validate_agent_id returns (instead of ending the process with sys.exit(1)):
\* the id is not empty, is made of lowercase letters, digits and hyphens only
\* (of the ids of the model, all but "R3") and is not in agents.json
AgentIdAccepted(agent_id, agents) ==
    /\ agent_id # ""
    /\ agent_id \in {"ghost", "n1", "n2", "r1", "r2"}
    /\ agent_id \notin {agents["agents"][i]["id"] : i \in 1..Len(agents["agents"])}

\* The documents after main() and how the process ended.  args is the command
\* line: agent_id, world, position and custom (TRUE when the position was
\* given with --position, FALSE when get_spawn_position drew it), dry_run.
\* An exception that main does not catch ends the process like sys.exit(1).
spawn_agent(s, args, timestamp, fault) ==
    LET agents == s.agents
        actions == s.actions
        exits(t) == [store |-> t, ended |-> "error"]
        \* lines 209-212: the position given with --position lies within the bounds
        PositionAccepted(world, position) ==
            LET bounds == WORLD_BOUNDS[world]
            IN  /\ bounds["x"][1] <= position["x"] /\ position["x"] <= bounds["x"][2]
                /\ bounds["z"][1] <= position["z"] /\ position["z"] <= bounds["z"][2]
        \* update_meta(data, timestamp, count_field)
        update_meta(data, count_field) ==
            LET stamped == SetMeta(data, "lastUpdate", timestamp)
            IN  SetMeta(stamped, count_field, Get(stamped["_meta"], count_field, 0) + 1)
    IN  IF ~(IsDocument(agents) /\ IsDocument(actions) /\ Has(agents, "agents")) THEN exits(s)
        ELSE IF ~AgentIdAccepted(args.agent_id, agents) THEN exits(s)
        ELSE IF args.custom /\ ~PositionAccepted(args.world, args.position) THEN exits(s)
        ELSE IF ~(Has(actions, "_meta") /\ Has(actions["_meta"], "count")) THEN exits(s)
        ELSE IF ~(Has(agents, "_meta") /\ Has(actions, "actions")) THEN exits(s)
        ELSE
        LET action_id == get_next_action_id(actions)
            agent_entry ==
                [id |-> args.agent_id, name |-> args.agent_id, avatar |-> "robot",
                 world |-> args.world, position |-> args.position, rotation |-> 0,
                 status |-> "active", action |-> "idle", lastUpdate |-> timestamp]
            spawn_action ==
                [id |-> action_id, timestamp |-> timestamp, agentId |-> args.agent_id,
                 type |-> "spawn", world |-> args.world,
                 data |-> [position |-> args.position, animation |-> "fadeIn"]]
            agents1 == update_meta(Update(agents, [agents |-> Append(agents["agents"],
                                                                      agent_entry)]),
                                   "agentCount")
            log == Append(actions["actions"], spawn_action)
            actions1 == Update(update_meta(Update(actions, [actions |-> log]),
                                           "count"),
                               [actions |-> LastN(log, LogCap)])
        IN  IF args.dry_run THEN [store |-> s, ended |-> "ok"]
            ELSE IF fault = "write_actions" THEN exits([s EXCEPT !.agents = agents1])
            ELSE [store |-> [s EXCEPT !.agents = agents1, !.actions = actions1],
                  ended |-> IF fault = "git" THEN "error" ELSE "ok"]

-----------------------------------------------------------------------------
(* The state-writing workflows: each run checks the repository out, runs its *)
(* script on the working copy and pushes the result                          *)

MaxTriggers == 3

\* two of STATE_MUTATING_WORKFLOWS: the merge of the inbox, and the agents
\* acting by themselves
Workflows == {"apply-deltas.yml", "agent-autonomy.yml"}

WorkflowInit ==
    /\ store = InitStore
    /\ inbox = EmptyObject
    /\ pc = "idle"
    /\ queue = <<>>
    /\ processed = <<>>
    /\ passInbox = EmptyObject
    /\ passStore = InitStore
    /\ order = <<>>
    /\ pre = InitStore
    /\ lastFile = ""
    /\ lastOk = FALSE
    /\ applied = {}
    /\ submits = 0
    /\ findings = <<>>
    /\ audited = FALSE
    /\ probe = NoProbe
    /\ gate = NoGate
    /\ audit = NoAudit
    /\ wf = [holder |-> "none",
             run |-> [r \in Workflows |-> [pc |-> "idle", work |-> InitStore]],
             accepted |-> {}, triggers |-> 0]
    /\ writer = NoWriter
    /\ interrupts = 0

WorkflowFrame ==
    UNCHANGED <<inbox, pc, queue, processed, passInbox, passStore, order, pre, lastFile,
                lastOk, applied, submits, findings, audited, probe, gate, audit, writer, interrupts>>

\* a schedule or an event asks for a run of the workflow
WorkflowTrigger(r) ==
    /\ wf.run[r].pc = "idle"
    /\ wf.triggers < MaxTriggers
    /\ wf' = [wf EXCEPT !.run[r].pc = "queued", !.triggers = @ + 1]
    /\ UNCHANGED store
    /\ WorkflowFrame

\* WorkflowStart of a workflow outside the concurrency group
WorkflowStartUngrouped(r) ==
    /\ wf.run[r].pc = "queued"
    /\ wf' = [wf EXCEPT !.holder = r, !.run[r] = [pc |-> "running", work |-> store]]
    /\ UNCHANGED store
    /\ WorkflowFrame

\* the run starts when no other run of the group state-writer is in progress
\* (cancel-in-progress: false: a run in progress is never cancelled), and
\* checks out the head of main
WorkflowStart(r) ==
    /\ wf.run[r].pc = "queued"
    /\ wf.holder = "none"
    /\ wf' = [wf EXCEPT !.holder = r, !.run[r] = [pc |-> "running", work |-> store]]
    /\ UNCHANGED store
    /\ WorkflowFrame

\* the script of the run reads the documents of the working copy, changes
\* them and writes them back
WorkflowWrite(r) ==
    /\ wf.run[r].pc = "running"
    /\ \E now \in Clock :
          IF r = "apply-deltas.yml"
          \* the deltas in the inbox of a run of apply-deltas.yml
          THEN \E delta \in {MoveR1, MoveOutOfBounds} :
                  wf' = [wf EXCEPT !.run[r] =
                            [pc |-> "written", work |-> apply_delta(@.work, delta, now)]]
          \* the actions agent_runtime decides on
          ELSE \E a \in {[type |-> "move", data |-> [to |-> Pos(1, 1)]],
                          [type |-> "emote", data |-> [emote |-> "wave"]]} :
                  wf' = [wf EXCEPT !.run[r] =
                            [pc |-> "written",
                             work |-> execute_action(@.work, "r1", a.type, a.data,
                                                     now, "none").store]]
    /\ UNCHANGED store
    /\ WorkflowFrame

\* the entries the run's script has added to the log of its working copy
Written(r) == Range(ActionsLog(wf.run[r].work)) \ Range(ActionsLog(store))

\* the run pushes its commit: the documents of its working copy become the
\* documents of main, and the run leaves the group
WorkflowPush(r) ==
    /\ wf.run[r].pc = "written"
    /\ store' = wf.run[r].work
    /\ wf' = [wf EXCEPT !.holder = IF @ = r THEN "none" ELSE @,
                        !.run[r].pc = "idle",
                        !.accepted = @ \cup Written(r)]
    /\ WorkflowFrame

WorkflowNext ==
    \E r \in Workflows :
        \/ WorkflowTrigger(r)
        \/ WorkflowStart(r)
        \/ WorkflowWrite(r)
        \/ WorkflowPush(r)

WorkflowSpec == WorkflowInit /\ [][WorkflowNext]_vars

-----------------------------------------------------------------------------
(* The scripts that write the documents themselves: spawn_agent.py and      *)
(* agent_runtime.execute_action, called one after the other on one checkout *)

MaxCalls == 3

WriterInit ==
    \* agents.json and actions.json at the start: the actions document with the
    \* counter spawn_agent keeps, and the one without it
    /\ store \in {[InitStore EXCEPT !.actions = [actions |-> <<>>, _meta |-> meta]] :
                     meta \in {[lastUpdate |-> 0, count |-> 0], [lastUpdate |-> 0]}}
    /\ inbox = EmptyObject
    /\ pc = "idle"
    /\ queue = <<>>
    /\ processed = <<>>
    /\ passInbox = EmptyObject
    /\ passStore = InitStore
    /\ order = <<>>
    /\ pre = store
    /\ lastFile = ""
    /\ lastOk = FALSE
    /\ applied = {}
    /\ submits = 0
    /\ findings = <<>>
    /\ audited = FALSE
    /\ probe = NoProbe
    /\ gate = NoGate
    /\ audit = NoAudit
    /\ wf = NoWorkflow
    /\ writer = NoWriter
    /\ interrupts = 0

WriterFrame ==
    UNCHANGED <<inbox, pc, queue, processed, passInbox, passStore, order, lastFile,
                lastOk, applied, submits, findings, audited, probe, gate, audit, wf,
                interrupts>>

\* python3 scripts/spawn_agent.py --agent-id ... : the whole of main
SpawnCall ==
    /\ writer.calls < MaxCalls
    \* the command lines: a position that was not given is one that
    \* get_spawn_position drew within the bounds
    /\ \E args \in [agent_id : {"r1", "r2", "R3"}, world : {"hub"},
                     position : {Pos(0, 0), Pos(15, 15), Pos(16, 0)},
                     custom : BOOLEAN, dry_run : BOOLEAN],
          fault \in WriterFaults :
          LET run == spawn_agent(store, args, writer.calls + 1, fault)
          IN  /\ args.custom \/ args.position = Pos(0, 0)
              \* a dry run writes no file and runs no git command
              /\ args.dry_run => fault = "none"
              /\ store' = run.store
              /\ writer' = [calls |-> writer.calls + 1, script |-> "spawn_agent",
                            args |-> args, fault |-> fault, ended |-> run.ended]
    /\ pre' = store
    /\ WriterFrame

\* agent_runtime.py: one call of execute_action
ExecuteCall ==
    /\ writer.calls < MaxCalls
    /\ \E args \in [agent_id : {"r1", "r2"}, action_type : {"move"},
                     action_data : {[to |-> Pos(5, 5)], [to |-> Pos(6, 6)]}]
                    \cup [agent_id : {"r1", "r2"}, action_type : {"emote"},
                          action_data : {[emote |-> "wave"]}],
          fault \in WriterFaults :
          LET run == execute_action(store, args.agent_id, args.action_type,
                                    args.action_data, writer.calls + 1, fault)
          IN  /\ store' = run.store
              /\ writer' = [calls |-> writer.calls + 1, script |-> "agent_runtime",
                            args |-> args, fault |-> fault,
                            ended |-> IF run.returned THEN "ok" ELSE "error"]
    /\ pre' = store
    /\ WriterFrame

WriterNext ==
    \/ SpawnCall
    \/ ExecuteCall

WriterSpec == WriterInit /\ [][WriterNext]_vars

-----------------------------------------------------------------------------
(* Writers that read the documents, allocate the id of their next action as *)
(* agent_runtime does, and hand the action in as a delta: validate_delta.py *)
(* admits it, apply_deltas.py merges it                                     *)

\* The delta of a writer that has read `baseline`: the action entry of
\* execute_action (agent_runtime.py, lines 216-232) in the delta format of
\* apply_deltas.py (lines 7-20).
WriterDelta(baseline, agent_id, to, timestamp) ==
    [agent_id |-> agent_id, timestamp |-> timestamp,
     actions |-> << MoveAction(NextActionId(baseline.actions), timestamp, agent_id,
                               "hub", to) >>]

RaceInit ==
    LET TwoAgents ==
            [InitStore EXCEPT !.agents =
                [agents |-> Append(InitStore.agents["agents"], SpawnR2["agent_update"]),
                 _meta |-> [lastUpdate |-> 0, agentCount |-> 2]]]
    IN  /\ store = TwoAgents
        /\ inbox = EmptyObject
        /\ pc = "idle"
        /\ queue = <<>>
        /\ processed = <<>>
        /\ passInbox = EmptyObject
        /\ passStore = TwoAgents
        /\ order = <<>>
        /\ pre = TwoAgents
        /\ lastFile = ""
        /\ lastOk = FALSE
        /\ applied = {}
        /\ submits = 0
        /\ findings = <<>>
        /\ audited = FALSE
        /\ probe = NoProbe
        /\ gate = NoGate
        /\ audit = NoAudit
        /\ wf = NoWorkflow
        /\ writer = NoWriter
        /\ interrupts = 0

\* A writer that has no delta pending reads the documents and hands in its
\* delta; the file reaches the inbox of the merge when validate_delta has no
\* error for it.
RaceSubmit(name, agent_id) ==
    /\ \A other \in DOMAIN inbox : inbox[other]["agent_id"] # agent_id
    /\ \E to \in {Pos(5, 5)}, timestamp \in {1, 2} :
          LET delta == WriterDelta(store, agent_id, to, timestamp)
              checked == validate_delta(name, DeltaFile(delta))
          IN  /\ ~checked.raised
              /\ checked.errors = <<>>
              /\ Submit(name, delta)

RaceNext ==
    \/ \E name \in Range(FileNames), agent_id \in {"r1", "r2"} : RaceSubmit(name, agent_id)
    \/ MergeStart
    \/ ApplyNext
    \/ RemoveProcessed

RaceSpec == RaceInit /\ [][RaceNext]_vars

-----------------------------------------------------------------------------
(* scripts/world_growth.py: the end of simulate_tick, from the trim of the  *)
(* logs (line 1098) to the save (line 1166)                                 *)

\* next_id(prefix, existing) for the ids the model's logs hold: the number
\* of an id that starts with the prefix is the n of prefix-00n or prefix-n;
\* any other id does not start with it
next_id(prefix, existing) ==
    LET Number(eid) ==
            LET ns == {n \in 1..MaxActionNumber :
                          eid \in {prefix \o ToString(n), prefix \o "00" \o ToString(n)}}
            IN  IF ns = {} THEN 0 ELSE CHOOSE n \in ns : TRUE
        numbers == {Number(eid) : eid \in existing} \cup {0}
        mx == CHOOSE n \in numbers : \A m \in numbers : m <= n
    IN  prefix \o (IF mx + 1 < 10 THEN "00" ELSE IF mx + 1 < 100 THEN "0" ELSE "")
               \o ToString(mx + 1)

RECURSIVE ReconcileToLastMove(_, _, _, _, _)
\* Reconcile whose sync action goes to where the last move went
ReconcileToLastMove(agents, i, last_actions, actions, ts) ==
    IF i > Len(agents) THEN actions
    ELSE LET agent == agents[i]
             moves == {k \in 1..Len(last_actions) :
                          /\ Opt(last_actions[k], "type") = <<"move">>
                          /\ last_actions[k]["agentId"] = agent["id"]}
             lm == last_actions[CHOOSE k \in moves : \A j \in moves : j <= k]
             lm_to == Get(Get(lm, "data", EmptyObject), "to", EmptyObject)
             a_pos == Get(agent, "position", EmptyObject)
             a_world == Get(agent, "world", "hub")
             pos_match == Opt(a_pos, "x") = Opt(lm_to, "x") /\ Opt(a_pos, "z") = Opt(lm_to, "z")
             sync == [id |-> next_id("action-", {actions[k]["id"] : k \in 1..Len(actions)}),
                      timestamp |-> ts, agentId |-> agent["id"], type |-> "move",
                      world |-> a_world,
                      data |-> [from |-> a_pos, to |-> lm_to, duration |-> 0, sync |-> TRUE]]
         IN  IF moves = {} \/ (pos_match /\ a_world = Get(lm, "world", "hub"))
             THEN ReconcileToLastMove(agents, i + 1, last_actions, actions, ts)
             ELSE ReconcileToLastMove(agents, i + 1, last_actions, Append(actions, sync), ts)

RECURSIVE Reconcile(_, _, _, _, _)
\* lines 1102-1136: the loop over the agents from agent i on; last_actions is
\* the log last_moves was built from, actions the log with the sync actions
\* added so far
Reconcile(agents, i, last_actions, actions, ts) ==
    IF i > Len(agents) THEN actions
    ELSE LET agent == agents[i]
             moves == {k \in 1..Len(last_actions) :
                          /\ Opt(last_actions[k], "type") = <<"move">>
                          /\ last_actions[k]["agentId"] = agent["id"]}
             lm == last_actions[CHOOSE k \in moves : \A j \in moves : j <= k]
             lm_to == Get(Get(lm, "data", EmptyObject), "to", EmptyObject)
             a_pos == Get(agent, "position", EmptyObject)
             a_world == Get(agent, "world", "hub")
             pos_match == Opt(a_pos, "x") = Opt(lm_to, "x") /\ Opt(a_pos, "z") = Opt(lm_to, "z")
             sync == [id |-> next_id("action-", {actions[k]["id"] : k \in 1..Len(actions)}),
                      timestamp |-> ts, agentId |-> agent["id"], type |-> "move",
                      world |-> a_world,
                      data |-> [from |-> lm_to, to |-> a_pos, duration |-> 0, sync |-> TRUE]]
         IN  IF moves = {} \/ (pos_match /\ a_world = Get(lm, "world", "hub"))
             THEN Reconcile(agents, i + 1, last_actions, actions, ts)
             ELSE Reconcile(agents, i + 1, last_actions, Append(actions, sync), ts)

\* The documents simulate_tick saves, given the documents it holds in memory
\* when it arrives at line 1098 (s: what it loaded, with the agents it
\* spawned and the activity it generated).
simulate_tick(s, ts) ==
    LET agents == Get(s.agents, "agents", <<>>)
        trimmed == LastN(Get(s.actions, "actions", <<>>), LogCap)
        chat_msgs == LastN(Get(s.chat, "messages", <<>>), LogCap)
        reconciled == Reconcile(agents, 1, trimmed, trimmed, ts)
        actions == IF Len(reconciled) > Len(trimmed) THEN LastN(reconciled, LogCap)
                   ELSE trimmed
    IN  [s EXCEPT
            !.agents = Update(s.agents, [agents |-> agents,
                                         _meta |-> [lastUpdate |-> ts,
                                                    agentCount |-> Len(agents)]]),
            !.actions = Update(s.actions,
                               [actions |-> actions,
                                _meta |-> [lastProcessedId |->
                                               IF actions # <<>>
                                               THEN << actions[Len(actions)]["id"] >>
                                               ELSE <<>>,
                                           lastUpdate |-> ts]]),
            !.chat = Update(s.chat, [messages |-> chat_msgs,
                                     _meta |-> [lastUpdate |-> ts,
                                                messageCount |-> Len(chat_msgs)]])]

TickInit ==
    LET \* a log of n entries: emotes, but for a move of "r1" at index p1
        \* and a move of "r2" at index p2
        LogOf(n, p1, p2) ==
            [i \in 1..n |->
                IF i = p1 THEN MoveAction("action-001", 1, "r1", "hub", Pos(5, 5))
                ELSE IF i = p2 THEN MoveAction("action-002", 1, "r2", "hub", Pos(6, 6))
                ELSE [id |-> "old-" \o ToString(i), timestamp |-> 1, agentId |-> "r1",
                      type |-> "emote", world |-> "hub", data |-> [emote |-> "wave"]]]
        Agent(id, world, position) ==
            [id |-> id, name |-> id, world |-> world, position |-> position,
             status |-> "active"]
        Stores ==
            {[InitStore EXCEPT
                 !.agents = [agents |-> << Agent("r1", w1, q1), Agent("r2", "hub", q2) >>,
                             _meta |-> [lastUpdate |-> 0, agentCount |-> 2]],
                 !.actions = [actions |-> LogOf(n, p[1], p[2]),
                              _meta |-> [lastUpdate |-> 0]]] :
                n \in (LogCap - 1)..(LogCap + 2),
                p \in {q \in {1, 2, 3, LogCap - 1} \X {1, 2, 3, LogCap - 1} : q[1] # q[2]},
                w1 \in {"hub", "arena"},
                q1 \in {Pos(5, 5), Pos(0, 0)},
                q2 \in {Pos(6, 6), Pos(0, 0)}}
    IN  /\ store \in Stores
        /\ inbox = EmptyObject
        /\ pc = "idle"
        /\ queue = <<>>
        /\ processed = <<>>
        /\ passInbox = EmptyObject
        /\ passStore = InitStore
        /\ order = <<>>
        /\ pre = store
        /\ lastFile = ""
        /\ lastOk = FALSE
        /\ applied = {}
        /\ submits = 0
        /\ findings = <<>>
        /\ audited = FALSE
        /\ probe = NoProbe
        /\ gate = NoGate
        /\ audit = NoAudit
        /\ wf = NoWorkflow
        /\ writer = NoWriter
        /\ interrupts = 0

\* simulate_tick from line 1098 to its end
TickSave ==
    /\ writer.script = "none"
    /\ \E ts \in Clock, dry_run \in BOOLEAN :
          /\ store' = IF dry_run THEN store ELSE simulate_tick(store, ts)
          /\ writer' = [calls |-> 1, script |-> "world_growth",
                        args |-> [dry_run |-> dry_run], fault |-> "none",
                        ended |-> IF dry_run THEN "dry_run" ELSE "ok"]
    /\ pre' = store
    /\ WriterFrame

TickNext == TickSave

TickSpec == TickInit /\ [][TickNext]_vars

-----------------------------------------------------------------------------
(* What the claims speak about *)

\* the delta of the latest apply_delta call
LastDelta == passInbox[lastFile]

\* an apply_delta call has been made in the pass on record
Called == lastFile # ""

AgentIdsOf(s) ==
    LET agents == Get(s.agents, "agents", <<>>)
    IN  {agents[i]["id"] : i \in {k \in 1..Len(agents) : Has(agents[k], "id")}}

ActionsOf(s) == Get(s.actions, "actions", <<>>)

MessagesOf(s) == Get(s.chat, "messages", <<>>)

\* the delta carries a log entry whose producer is no agent record of s
HasUnknownProducer(delta, s) ==
    \/ \E m \in Range(Get(delta, "messages", <<>>)) : m["author"]["id"] \notin AgentIdsOf(s)
    \/ \E a \in Range(Get(delta, "actions", <<>>)) : a["agentId"] \notin AgentIdsOf(s)

-----------------------------------------------------------------------------
(* C1 *)

\* C1: a delta with an invalid entry (a message or action whose producer is not
\* an existing agent record) is applied atomically: no entry of it is appended,
\* every log is as long as before the delta was processed.
C1_AtomicRejection ==
    (Called /\ HasUnknownProducer(LastDelta, pre)) =>
        /\ Len(MessagesOf(store)) = Len(MessagesOf(pre))
        /\ Len(ActionsOf(store)) = Len(ActionsOf(pre))

-----------------------------------------------------------------------------
(* C2 *)

\* the next delta of the queue was applied by an earlier pass and is in the
\* inbox again
Resubmitted ==
    /\ pc = "apply"
    /\ inbox[Head(queue)] \in applied
    /\ \A n \in Range(processed) : inbox[n] # inbox[Head(queue)]

\* C2: applying a delta that an earlier pass has applied, submitted again
\* unchanged, is a no-op: it leaves every canonical document (actions log, chat
\* log, agents, objects, activity feed) exactly as it was.
C2_ReapplyIsNoOp ==
    [][Resubmitted => store' = store]_vars

-----------------------------------------------------------------------------
(* C3 *)

\* the sort key the claim names: the declared timestamp, then the delta's own
\* id, which is the name of its file (state/inbox/{unique-id}.json)
Precedes(box, m, n) ==
    \/ box[m]["timestamp"] < box[n]["timestamp"]
    \/ box[m]["timestamp"] = box[n]["timestamp"] /\ NameRank(m) < NameRank(n)

-----------------------------------------------------------------------------
(* C4 *)

RecordsOf(s, id) ==
    LET agents == Get(s.agents, "agents", <<>>)
    IN  {i \in 1..Len(agents) : Opt(agents[i], "id") = <<id>>}

UpsertsId(delta, id) ==
    Truthy(delta, "agent_update") /\ Opt(delta["agent_update"], "id") = <<id>>

\* C4: when a pass has applied a delta that spawns a record that did not exist
\* and, later in the same pass, a delta that updates the same record, the pass
\* ends with exactly one record of that id, and it carries the values of the
\* later delta.
C4_SpawnThenUpdate ==
    pc = "done" =>
        \A i, j \in 1..Len(order) : \A id \in {"r1", "r2"} :
            (/\ i < j
             /\ RecordsOf(passStore, id) = {}
             /\ UpsertsId(passInbox[order[i]], id)
             /\ UpsertsId(passInbox[order[j]], id)
             /\ \A k \in (j + 1)..Len(order) : ~UpsertsId(passInbox[order[k]], id))
            => /\ Cardinality(RecordsOf(store, id)) = 1
               /\ LET rec == store.agents["agents"][CHOOSE r \in RecordsOf(store, id) : TRUE]
                      upd == passInbox[order[j]]["agent_update"]
                  IN  \A f \in DOMAIN upd : Has(rec, f) /\ rec[f] = upd[f]

\* C4 witness: one pass spawned "r2" at (0,0) and then moved it to (5,5)
C4_Witness ==
    /\ pc = "done"
    /\ Len(order) = 2
    /\ passInbox[order[1]] = SpawnR2
    /\ passInbox[order[2]] = MoveR2
    /\ RecordsOf(passStore, "r2") = {}
    /\ Cardinality(RecordsOf(store, "r2")) = 1
    /\ \E i \in RecordsOf(store, "r2") : store.agents["agents"][i]["position"] = Pos(5, 5)

-----------------------------------------------------------------------------
(* C5 *)

-----------------------------------------------------------------------------
(* C6 *)

Monotonic(entries) ==
    \A i \in 1..(Len(entries) - 1) : entries[i]["timestamp"] <= entries[i + 1]["timestamp"]

\* C6: after every merge each append log (actions, chat messages) is ordered by
\* timestamp: entries[i].timestamp <= entries[i+1].timestamp for all i; a delta
\* whose entries are older than the last entry of the log is not appended.
C6_MonotonicLogs ==
    Monotonic(ActionsOf(store)) /\ Monotonic(MessagesOf(store))

-----------------------------------------------------------------------------
(* C7 *)

\* the errors of the probe that name the axis
AxisErrors(axis) ==
    {i \in 1..Len(probe.errors) :
        probe.errors[i].kind = "out_of_bounds" /\ probe.errors[i].axis = axis}

\* the coordinate validate_position reads for the axis: an absent one counts as 0
Coordinate(axis) == IF Has(probe.pos, axis) THEN probe.pos[axis] ELSE 0

\* C7: for a world of the bounds table, validate_position reports a violation
\* for an axis (x or z) exactly when the coordinate is outside the world's
\* inclusive [min, max] range of that axis, once, naming the axis and the range;
\* for a world that is not in the table it reports a violation.
C7_BoundsEnforcement ==
    probe.checked =>
        IF probe.world \in {"hub", "arena", "marketplace", "gallery", "dungeon"}
        THEN /\ \A axis \in {"x", "z"} :
                  LET min == WORLD_BOUNDS[probe.world][axis][1]
                      max == WORLD_BOUNDS[probe.world][axis][2]
                      outside == Coordinate(axis) < min \/ Coordinate(axis) > max
                  IN  /\ outside <=> AxisErrors(axis) # {}
                      /\ Cardinality(AxisErrors(axis)) <= 1
                      /\ \A i \in AxisErrors(axis) :
                            /\ probe.errors[i].lo = min
                            /\ probe.errors[i].hi = max
                            /\ probe.errors[i].world = probe.world
             /\ Len(probe.errors) = Cardinality(AxisErrors("x")) + Cardinality(AxisErrors("z"))
        ELSE Len(probe.errors) = 1 /\ probe.errors[1].kind = "unknown_world"

\* C7 witness: in the hub, x one unit outside its range [-15, 15] and z on the
\* bound: the one violation is for x
C7_Witness ==
    /\ probe.checked
    /\ probe.world = "hub"
    /\ probe.pos = Pos(16, 15)
    /\ Len(probe.errors) = 1
    /\ probe.errors[1].axis = "x"
    /\ probe.errors[1].lo = -15
    /\ probe.errors[1].hi = 15

-----------------------------------------------------------------------------
(* C8 *)

R1At(s, world, pos) ==
    \E i \in RecordsOf(s, "r1") :
        /\ Opt(s.agents["agents"][i], "world") = <<world>>
        /\ Opt(s.agents["agents"][i], "position") = <<pos>>

\* C8: with "r1" at (5,5) in the hub, the delta that carries a move entry of "r1"
\* to (999,999) is rejected: afterwards "r1" is still at (5,5) and the actions
\* log has as many entries as before.
C8_OutOfBoundsMoveRejected ==
    (Called /\ LastDelta = MoveOutOfBounds /\ R1At(pre, "hub", Pos(5, 5))) =>
        /\ R1At(store, "hub", Pos(5, 5))
        /\ Len(ActionsOf(store)) = Len(ActionsOf(pre))

-----------------------------------------------------------------------------
(* C9 *)

\* the records a delta touches: the record it upserts, the producers of its log
\* entries, the objects it places
Touched(delta) ==
    (IF Truthy(delta, "agent_update") THEN {Get(delta["agent_update"], "id", "")} ELSE {})
    \cup {a["agentId"] : a \in Range(Get(delta, "actions", <<>>))}
    \cup {m["author"]["id"] : m \in Range(Get(delta, "messages", <<>>))}
    \cup {o["id"] : o \in Range(Get(Get(delta, "objects", EmptyObject), "entries", <<>>))}

Independent(d1, d2) ==
    /\ Has(d1, "agent_id") /\ Has(d2, "agent_id")
    /\ d1["agent_id"] # d2["agent_id"]
    /\ Touched(d1) \cap Touched(d2) = {}

\* C9: two deltas from different producers that touch disjoint records give the
\* same final state of all canonical documents in either order of application.
C9_IndependentDeltasCommute ==
    pc \in {"idle", "done"} =>
        \A d1, d2 \in Deltas : \A now \in Clock :
            Independent(d1, d2) =>
                apply_delta(apply_delta(store, d1, now), d2, now)
                    = apply_delta(apply_delta(store, d2, now), d1, now)

-----------------------------------------------------------------------------
(* C10 *)

\* the move entries of the actions log that relocate the record
RelocationsOf(id) ==
    {i \in 1..Len(ActionsOf(store)) :
        LET a == ActionsOf(store)[i]
        IN  a["type"] = "move" /\ a["agentId"] = id /\ Has(a["data"], "to")}

\* the most recent relocation entry of the record
LatestRelocation(id) ==
    ActionsOf(store)[CHOOSE i \in RelocationsOf(id) : \A j \in RelocationsOf(id) : j <= i]

TheRecord(id) == store.agents["agents"][CHOOSE i \in RecordsOf(store, id) : TRUE]

\* the record's zone is not the zone of its most recent relocation entry
ZoneDisagrees(id) == Opt(TheRecord(id), "world") # <<LatestRelocation(id)["world"]>>

\* the record's x or z is not that of the target of its most recent relocation entry
LocationDisagrees(id) ==
    LET pos == Get(TheRecord(id), "position", EmptyObject)
        to == LatestRelocation(id)["data"]["to"]
    IN  Opt(pos, "x") # <<to["x"]>> \/ Opt(pos, "z") # <<to["z"]>>

\* how many findings of the latest audit are of one of the kinds and name the record
Findings(kinds, id) ==
    Cardinality({i \in 1..Len(findings) :
                    findings[i].kind \in kinds /\ findings[i].agent = id})

\* the records the claim is about: one record of the id, and a relocation in the log
Relocated == {id \in {"r1", "r2"} :
                 Cardinality(RecordsOf(store, id)) = 1 /\ RelocationsOf(id) # {}}

\* C10 as stated: a record whose zone disagrees with the zone of its most recent
\* relocation entry gets exactly one position-drift finding, which names it; a
\* record whose position and zone both match gets none. (The auditor's drift
\* findings about a record's location are its "Position drift" and "World
\* drift" errors.)
C10_ExactlyOneDriftFinding ==
    audited =>
        \A id \in Relocated :
            /\ ZoneDisagrees(id) => Findings({"position_drift", "world_drift"}, id) = 1
            /\ (~ZoneDisagrees(id) /\ ~LocationDisagrees(id))
                   => Findings({"position_drift", "world_drift"}, id) = 0

\* C10 amended: a record whose zone disagrees with the zone of its most recent
\* relocation entry gets exactly one world-drift finding, which names it, and
\* besides it one position-drift finding exactly when its x or z disagrees with
\* the entry's target too; a record whose position and zone both match gets none.
C10_DriftFindings ==
    audited =>
        \A id \in Relocated :
            /\ Findings({"world_drift"}, id) = (IF ZoneDisagrees(id) THEN 1 ELSE 0)
            /\ Findings({"position_drift"}, id) = (IF LocationDisagrees(id) THEN 1 ELSE 0)
            /\ \A i \in 1..Len(findings) :
                  (findings[i].kind \in {"position_drift", "world_drift"}
                        /\ findings[i].agent = id)
                     => findings[i].action_id = <<LatestRelocation(id)["id"]>>

\* C10 witness: "r1" has moved twice, stands where its most recent relocation
\* entry sent it, but in another zone: the audit reports the one world-drift
\* finding
C10_Witness ==
    /\ audited
    /\ "r1" \in Relocated
    /\ Cardinality(RelocationsOf("r1")) = 2
    /\ ZoneDisagrees("r1")
    /\ ~LocationDisagrees("r1")
    /\ Findings({"world_drift"}, "r1") = 1
    /\ Findings({"position_drift"}, "r1") = 0

-----------------------------------------------------------------------------
(* The delta validator as a gate *)

\* the file has been validated by the gate run, and validate_delta returned
Validated(name) ==
    /\ name \in DOMAIN gate.files
    /\ gate.pc \in {"loop", "report", "exit"}
    /\ name \notin Range(gate.todo)

\* the errors the gate run has for the file
ErrorsOf(name) == SelectSeq(gate.errors, LAMBDA e : e.file = name)

\* how many of them are of the kind
CountOf(name, kind) ==
    Cardinality({i \in 1..Len(gate.errors) :
                    gate.errors[i].file = name /\ gate.errors[i].kind = kind})

\* the field of a JSON object, when it has the field and the field has the type
Field(obj, key, type) ==
    IF key \in DOMAIN obj.v /\ obj.v[key].t = type THEN << obj.v[key].v >> ELSE <<>>

\* A delta in the shape of the delta format: a JSON object whose fields, where
\* present, have the JSON types of the format.
IsObjectList(v) == v.t = "list" /\ \A i \in 1..Len(v.v) : v.v[i].t = "obj"

HasFormatTypes(raw) ==
    /\ raw.t = "obj"
    /\ \A k \in DOMAIN raw.v \cap {"actions", "messages"} :
          /\ IsObjectList(raw.v[k])
          /\ \A i \in 1..Len(raw.v[k].v) :
                \A f \in DOMAIN raw.v[k].v[i].v : raw.v[k].v[i].v[f].t = "str"
    /\ \A k \in DOMAIN raw.v \cap {"agent_update", "objects"} : raw.v[k].t = "obj"
    /\ "objects" \in DOMAIN raw.v =>
          /\ \A k \in DOMAIN raw.v["objects"].v \cap {"world"} :
                raw.v["objects"].v[k].t = "str"
          /\ \A k \in DOMAIN raw.v["objects"].v \cap {"entries"} :
                IsObjectList(raw.v["objects"].v[k])

\* The defects of such a delta, each with the place it is at: <<kind, field, index>>.
ElementDefects(raw, field, missing, kind) ==
    IF field \in DOMAIN raw.v
    THEN {<<kind, field, i>> : i \in {j \in 1..Len(raw.v[field].v) :
                                        missing \notin DOMAIN raw.v[field].v[j].v}}
    ELSE {}

Defects(raw) ==
    (IF "agent_id" \notin DOMAIN raw.v THEN {<<"missing_agent_id", "", 0>>} ELSE {})
    \cup
    (IF "timestamp" \notin DOMAIN raw.v THEN {<<"missing_timestamp", "", 0>>}
     ELSE IF raw.v["timestamp"].t # "str" \/ raw.v["timestamp"].v \notin IsoTimestamps
          THEN {<<"invalid_timestamp", "", 0>>} ELSE {})
    \cup
    (IF DOMAIN raw.v \cap {"actions", "messages", "agent_update", "objects", "activities"} = {}
     THEN {<<"no_delta_content", "", 0>>} ELSE {})
    \cup ElementDefects(raw, "actions", "id", "action_missing_id")
    \cup ElementDefects(raw, "actions", "type", "action_missing_type")
    \cup (IF "actions" \in DOMAIN raw.v
          THEN {<<"invalid_action_type", "actions", i>> :
                   i \in {j \in 1..Len(raw.v["actions"].v) :
                            /\ "type" \in DOMAIN raw.v["actions"].v[j].v
                            /\ raw.v["actions"].v[j].v["type"].v
                                  \notin DELTA_VALID_ACTION_TYPES}}
          ELSE {})
    \cup ElementDefects(raw, "messages", "id", "message_missing_id")
    \cup ElementDefects(raw, "messages", "content", "message_missing_content")
    \cup (IF "agent_update" \in DOMAIN raw.v /\ "id" \notin DOMAIN raw.v["agent_update"].v
          THEN {<<"agent_update_missing_id", "", 0>>} ELSE {})
    \cup (IF "objects" \in DOMAIN raw.v
          THEN (IF Field(raw.v["objects"], "world", "str") = <<>>
                   \/ Field(raw.v["objects"], "world", "str")[1] \notin VALID_WORLDS
                THEN {<<"invalid_objects_world", "", 0>>} ELSE {})
               \cup ElementDefects(raw.v["objects"], "entries", "id", "object_missing_id")
          ELSE {})

DefectKinds ==
    {"missing_agent_id", "missing_timestamp", "invalid_timestamp", "no_delta_content",
     "action_missing_id", "action_missing_type", "invalid_action_type",
     "message_missing_id", "message_missing_content", "agent_update_missing_id",
     "invalid_objects_world", "object_missing_id"}

\* C11: the validator reports all violations of a delta, not only the first:
\* once a delta of the format has been validated, the errors of its file
\* hold one error for each of its defects, kind by kind.
C11_AllViolationsReported ==
    \A name \in DOMAIN gate.files :
        Validated(name) /\ HasFormatTypes(gate.files[name]) =>
            LET defects == Defects(gate.files[name])
            IN  /\ \A kind \in DefectKinds :
                      CountOf(name, kind) = Cardinality({d \in defects : d[1] = kind})
                /\ Len(ErrorsOf(name)) = Cardinality(defects)

\* a validated delta without agent_id, with an action of an invalid type and
\* with an object entry without id
C11_Witness ==
    /\ Validated("a-first")
    /\ HasFormatTypes(gate.files["a-first"])
    /\ {<<"missing_agent_id", "", 0>>, <<"invalid_action_type", "actions", 2>>,
        <<"object_missing_id", "entries", 1>>} \subseteq Defects(gate.files["a-first"])
    /\ Len(ErrorsOf("a-first")) >= 3

\* C12: the validator never throws on malformed input: no call of
\* validate_delta ends with an exception, and a validated file whose content
\* is not a delta of the format has at least one error.
C12_NeverThrows ==
    /\ ~gate.raised
    /\ \A name \in DOMAIN gate.files :
          Validated(name) /\ ~HasFormatTypes(gate.files[name]) => ErrorsOf(name) # <<>>

\* C13: the gate exits with 0 if and only if the validation of all pending
\* deltas produced no violation, and with 1 if it produced at least one; an
\* empty inbox exits with 0.
C13_ExitCode ==
    gate.pc = "exit" =>
        /\ gate.exit = 0 <=> gate.errors = <<>>
        /\ gate.errors # <<>> => gate.exit = 1
        /\ DOMAIN gate.files = {} => gate.exit = 0

\* the value of the field when it has the type, else the default
FieldOr(obj, key, type, default) ==
    IF Field(obj, key, type) = <<>> THEN default ELSE Field(obj, key, type)[1]

\* the actions of the delta that have a type, and the type is not of the fixed set
ActionsOfUnknownType(raw) ==
    LET acts == FieldOr(raw, "actions", "list", <<>>)
    IN  {i \in 1..Len(acts) :
            /\ acts[i].t = "obj"
            /\ "type" \in DOMAIN acts[i].v
            /\ ~(acts[i].v["type"].t = "str"
                 /\ acts[i].v["type"].v \in DELTA_VALID_ACTION_TYPES)}

\* the delta has an objects block, and the block names no world of the fixed set
NamesUnknownWorld(raw) ==
    /\ Field(raw, "objects", "obj") # <<>>
    /\ \/ Field(raw.v["objects"], "world", "str") = <<>>
       \/ Field(raw.v["objects"], "world", "str")[1] \notin VALID_WORLDS

\* C14: closed enumerations: a validated delta has one invalid-type error for
\* each action whose type is outside the fixed set of action types, and no
\* such error when every type is inside it; it has an error for the world of
\* its objects block exactly when the block names a world outside the fixed
\* set of worlds, or none.
C14_ClosedEnumerations ==
    \A name \in DOMAIN gate.files :
        Validated(name) /\ gate.files[name].t = "obj" =>
            /\ CountOf(name, "invalid_action_type")
                  = Cardinality(ActionsOfUnknownType(gate.files[name]))
            /\ CountOf(name, "invalid_objects_world")
                  = IF NamesUnknownWorld(gate.files[name]) THEN 1 ELSE 0

\* a validated delta with an action of type "fly" and objects for "narnia"
C14_Witness ==
    /\ Validated("a-first")
    /\ gate.files["a-first"].t = "obj"
    /\ ActionsOfUnknownType(gate.files["a-first"]) = {2}
    /\ gate.files["a-first"].v["actions"].v[2].v["type"] = JStr("fly")
    /\ NamesUnknownWorld(gate.files["a-first"])
    /\ Field(gate.files["a-first"].v["objects"], "world", "str") = << "narnia" >>
    /\ CountOf("a-first", "invalid_action_type") = 1
    /\ CountOf("a-first", "invalid_objects_world") = 1

PayloadFields == {"actions", "messages", "agent_update", "objects", "activities"}

\* the payload field of the delta is well-formed
IsWellFormedPayload(raw, key) ==
    LET v == raw.v[key]
    IN  CASE key = "actions" ->
               /\ IsObjectList(v)
               /\ \A i \in 1..Len(v.v) :
                     /\ "id" \in DOMAIN v.v[i].v
                     /\ Field(v.v[i], "type", "str") # <<>>
                     /\ Field(v.v[i], "type", "str")[1] \in DELTA_VALID_ACTION_TYPES
          [] key = "messages" ->
               /\ IsObjectList(v)
               /\ \A i \in 1..Len(v.v) : {"id", "content"} \subseteq DOMAIN v.v[i].v
          [] key = "agent_update" -> v.t = "obj" /\ "id" \in DOMAIN v.v
          [] key = "objects" ->
               /\ v.t = "obj"
               /\ Field(v, "world", "str") # <<>>
               /\ Field(v, "world", "str")[1] \in VALID_WORLDS
               /\ "entries" \in DOMAIN v.v =>
                     /\ IsObjectList(v.v["entries"])
                     /\ \A i \in 1..Len(v.v["entries"].v) :
                           "id" \in DOMAIN v.v["entries"].v[i].v
          [] key = "activities" -> v.t = "list"

HasValidTimestamp(raw) ==
    /\ Field(raw, "timestamp", "str") # <<>>
    /\ Field(raw, "timestamp", "str")[1] \in IsoTimestamps

\* C15: structural check: a validated delta without agent_id, without a
\* timestamp, with a timestamp that is not ISO-8601, or with none of the
\* payload fields has an error for it; a delta with agent_id, a valid
\* timestamp and well-formed payload has no error.
C15_StructuralCheck ==
    \A name \in DOMAIN gate.files :
        Validated(name) /\ gate.files[name].t = "obj" =>
            LET raw == gate.files[name]
            IN  /\ CountOf(name, "missing_agent_id")
                      = IF "agent_id" \in DOMAIN raw.v THEN 0 ELSE 1
                /\ CountOf(name, "missing_timestamp")
                      = IF "timestamp" \in DOMAIN raw.v THEN 0 ELSE 1
                /\ CountOf(name, "invalid_timestamp")
                      = IF "timestamp" \in DOMAIN raw.v /\ ~HasValidTimestamp(raw)
                        THEN 1 ELSE 0
                /\ CountOf(name, "no_delta_content")
                      = IF DOMAIN raw.v \cap PayloadFields = {} THEN 1 ELSE 0
                /\ (/\ "agent_id" \in DOMAIN raw.v
                    /\ HasValidTimestamp(raw)
                    /\ DOMAIN raw.v \cap PayloadFields # {}
                    /\ \A k \in DOMAIN raw.v \cap PayloadFields :
                          IsWellFormedPayload(raw, k))
                   => ErrorsOf(name) = <<>>

\* a validated delta of an agent_id only, after a validated delta with
\* agent_id, timestamp and one well-formed action
C15_Witness ==
    /\ Validated("a-first")
    /\ Validated("b-second")
    /\ gate.files["a-first"] = GoodDelta
    /\ ErrorsOf("a-first") = <<>>
    /\ DOMAIN gate.files["b-second"].v = {"agent_id"}
    /\ CountOf("b-second", "missing_timestamp") = 1
    /\ CountOf("b-second", "no_delta_content") = 1

-----------------------------------------------------------------------------
(* The agents document *)

AgentsOf(s) == Get(s.agents, "agents", <<>>)

\* the latest apply_delta call had an agent_update with an id
Upserted ==
    /\ Called
    /\ Truthy(LastDelta, "agent_update")
    /\ Has(LastDelta["agent_update"], "id")

\* C16: upsert semantics of agent_update.  When the id of the update matches
\* a record, the fields of the update have the new values in that record, its
\* other fields and all other records are as before, and the number of
\* records is as before; when it matches none, the records are those of
\* before followed by the update, and _meta.agentCount is their number.
C16_UpsertSemantics ==
    Upserted =>
        LET update == LastDelta["agent_update"]
            before == AgentsOf(pre)
            after == AgentsOf(store)
            hits == RecordsOf(pre, update["id"])
        IN  IF hits # {}
            THEN /\ Len(after) = Len(before)
                 /\ \E i \in hits :
                       /\ \A f \in DOMAIN update : Has(after[i], f) /\ after[i][f] = update[f]
                       /\ \A f \in DOMAIN before[i] \ DOMAIN update :
                             Has(after[i], f) /\ after[i][f] = before[i][f]
                       /\ \A j \in 1..Len(before) : j # i => after[j] = before[j]
            ELSE /\ Len(after) = Len(before) + 1
                 /\ SubSeq(after, 1, Len(before)) = before
                 /\ after[Len(after)] = update
                 /\ store.agents["_meta"]["agentCount"] = Len(after)

\* "r2" has been spawned, and then "r1" was moved by an update of its
\* position: two records, "r1" at (5,5) under its old name, "r2" untouched
C16_Witness ==
    /\ Upserted
    /\ LastDelta = MoveR1
    /\ Len(AgentsOf(pre)) = 2
    /\ Len(AgentsOf(store)) = 2
    /\ AgentsOf(pre)[1]["position"] = Pos(0, 0)
    /\ AgentsOf(store)[1]["position"] = Pos(5, 5)
    /\ AgentsOf(store)[1]["name"] = "r1"
    /\ AgentsOf(store)[2] = SpawnR2["agent_update"]
    /\ store.agents["_meta"]["agentCount"] = 2

\* the errors of the latest audit that are of the kind
FindingsOfKind(kind) == {i \in 1..Len(findings) : findings[i].kind = kind}

\* the agents document of the store with another announced count
Announcing(n) == SetMeta(store.agents, "agentCount", n)

C18_UniqueAgentIds ==
    /\ \A i, j \in 1..Len(AgentsOf(store)) :
          i # j => Opt(AgentsOf(store)[i], "id") # Opt(AgentsOf(store)[j], "id")
    /\ \A i \in 1..Len(AgentsOf(store)) : Has(AgentsOf(store)[i], "id")
    /\ audited => FindingsOfKind("duplicate_agent_id") = {}

\* the spawn of "r2" has been applied to documents that had a record "r2":
\* there is still one record "r2"
C18_Witness ==
    /\ Called
    /\ lastOk
    /\ LastDelta = SpawnR2
    /\ Cardinality(RecordsOf(pre, "r2")) = 1
    /\ Cardinality(RecordsOf(store, "r2")) = 1
    /\ Len(AgentsOf(store)) = 2

-----------------------------------------------------------------------------
(* The object collections of the worlds *)

ObjectsOf(s, world) == Get(s.worlds[world], "objects", <<>>)

ObjectIds(objects) == {Opt(objects[i], "id") : i \in 1..Len(objects)}

\* the latest apply_delta call had object entries for the world
PlacedIn(world) ==
    /\ Called
    /\ Truthy(LastDelta, "objects")
    /\ Get(LastDelta["objects"], "world", "hub") = world
    /\ Get(LastDelta["objects"], "entries", <<>>) # <<>>

\* C19: object deduplication.  When a delta with object entries is applied,
\* the objects the world had are unchanged, an entry whose id the world had
\* is not appended, the entries with new ids are appended; and no world's
\* object collection has two objects with the same id.
C19_ObjectDeduplication ==
    /\ \A world \in DOMAIN store.worlds :
          PlacedIn(world) =>
              LET before == ObjectsOf(pre, world)
                  after == ObjectsOf(store, world)
                  entries == LastDelta["objects"]["entries"]
              IN  /\ Len(after) >= Len(before)
                  /\ SubSeq(after, 1, Len(before)) = before
                  /\ \A i \in 1..Len(entries) :
                        Opt(entries[i], "id") \in ObjectIds(before)
                            => entries[i] \notin Range(SubSeq(after, Len(before) + 1, Len(after)))
                  /\ \A i \in 1..Len(entries) :
                        Opt(entries[i], "id") \notin ObjectIds(before)
                            => entries[i] \in Range(SubSeq(after, Len(before) + 1, Len(after)))
    /\ \A world \in DOMAIN store.worlds :
          \A i, j \in 1..Len(ObjectsOf(store, world)) :
              i # j => Opt(ObjectsOf(store, world)[i], "id")
                          # Opt(ObjectsOf(store, world)[j], "id")

-----------------------------------------------------------------------------
(* The bounded logs *)

\* the n most recent entries of a log, in their order
MostRecent(log, n) == IF Len(log) <= n THEN log ELSE SubSeq(log, Len(log) - n + 1, Len(log))

\* C20: log cardinality bound: after every merge the actions log and the chat
\* log hold at most LogCap entries, and they are the LogCap most recent of
\* the entries before the merge followed by the entries of the delta, in
\* their order.
C20_LogCardinalityBound ==
    Called =>
        /\ Len(ActionsOf(store)) <= LogCap
        /\ Len(MessagesOf(store)) <= LogCap
        /\ ActionsOf(store)
              = MostRecent(ActionsOf(pre) \o Get(LastDelta, "actions", <<>>), LogCap)
        /\ MessagesOf(store)
              = MostRecent(MessagesOf(pre) \o Get(LastDelta, "messages", <<>>), LogCap)

-----------------------------------------------------------------------------
(* The audit run on files of its own *)

\* the audit has run to its end over an agents.json that loaded
Audited == audit.pc = "done" /\ IsDocument(audit.files.agents)

AuditedAgents == Get(audit.files.agents, "agents", <<>>)

AuditedAgentIds == {AuditedAgents[i]["id"] : i \in 1..Len(AuditedAgents)}

AuditedActions ==
    IF IsDocument(audit.files.actions) THEN audit.files.actions["actions"] ELSE <<>>

\* the errors of the run that are of the kind
ErrorsOfKind(kind) == {i \in 1..Len(audit.errors) : audit.errors[i].kind = kind}

\* the positions of the log whose action names an agent no record has
DanglingActions == {i \in 1..Len(AuditedActions) :
                       AuditedActions[i]["agentId"] \notin AuditedAgentIds}

\* C21: every action of the log, at any position, that names an agent without
\* a record in agents.json gets an "unknown agent" error from the validator, so
\* a state the validator passes holds no such action.
C21_DanglingActionsReported ==
    Audited =>
        \A i \in DanglingActions :
            \E j \in ErrorsOfKind("unknown_agent") :
                audit.errors[j].id = AuditedActions[i]["id"]

-----------------------------------------------------------------------------
(* C22 *)

\* C22: records are never deleted: no step of a merge pass, and so no sequence
\* of passes, takes an id out of the agents collection.
C22_RecordsNeverDeleted == [][AgentIdsOf(store) \subseteq AgentIdsOf(store')]_vars

\* two passes have run; the first added r2 and the second updated r1, and both
\* ids are in the collection
C22_Witness ==
    /\ pc = "done"
    /\ SpawnR2 \in applied
    /\ Called
    /\ lastOk
    /\ LastDelta = MoveR1
    /\ \A name \in DOMAIN passInbox : passInbox[name] # SpawnR2
    /\ AgentIdsOf(passStore) = {"r1", "r2"}
    /\ AgentIdsOf(store) = {"r1", "r2"}

-----------------------------------------------------------------------------
(* C23 *)

\* C23: the auditor is read-only: the files of agents, actions, chat, trades,
\* inventory, npcs and game_state are after a run of the audit what they were
\* before it, whatever the run reports.
C23_AuditorReadOnly ==
    [][audit.pc = "ready" /\ audit'.pc = "done" => audit'.files = audit.files]_vars

\* a run over seven files that loaded, which found a rollup and an npc that
\* disagree with the agents
C23_Witness ==
    /\ audit.pc = "done"
    /\ \A name \in Range(AuditFiles) : IsDocument(audit.files[name])
    /\ ErrorsOfKind("population_drift") # {}
    /\ ErrorsOfKind("npc_world_mismatch") # {}

-----------------------------------------------------------------------------
(* C24 *)

AuditedNpcs ==
    IF IsDocument(audit.files.npcs) THEN Get(audit.files.npcs, "npcs", <<>>) ELSE <<>>

\* the errors of the kind that name the npc
NpcErrors(kind, id) == {i \in ErrorsOfKind(kind) : audit.errors[i].npc = id}

\* the agent record that mirrors the npc
Mirror(npc) == AgentRecord(AuditedAgents, npc["id"])

\* both copies carry the world field
SharesWorld(npc) == Has(npc, "world") /\ Has(Mirror(npc), "world")

\* C24: mirror drift.  An npc whose id no agent record has gets an error; an
\* npc with an agent record gets a world-mismatch error when the two copies
\* carry different worlds, and no error of either kind when they carry the same.
C24_MirrorDrift ==
    Audited =>
        \A k \in 1..Len(AuditedNpcs) :
            LET npc == AuditedNpcs[k]
                id == npc["id"]
            IN  IF id \notin AuditedAgentIds
                THEN NpcErrors("npc_not_in_agents", id) # {}
                ELSE /\ NpcErrors("npc_not_in_agents", id) = {}
                     /\ SharesWorld(npc) =>
                           (NpcErrors("npc_world_mismatch", id) # {}
                               <=> npc["world"] # Mirror(npc)["world"])

\* one run with an npc that disagrees with its agent record and an npc that has
\* none, each reported once
C24_Witness ==
    /\ Audited
    /\ Len(AuditedNpcs) = 2
    /\ AuditedNpcs[1]["world"] = "hub"
    /\ "n1" \in AuditedAgentIds
    /\ Mirror(AuditedNpcs[1])["world"] = "arena"
    /\ Cardinality(NpcErrors("npc_world_mismatch", "n1")) = 1
    /\ Cardinality(NpcErrors("npc_not_in_agents", "n2")) = 1
    /\ NpcErrors("npc_world_mismatch", "n2") = {}

-----------------------------------------------------------------------------
(* C25 *)

\* the worlds game_state.json lists, with their rollups
AuditedWorlds ==
    IF IsDocument(audit.files.game_state)
    THEN Get(audit.files.game_state, "worlds", EmptyObject) ELSE EmptyObject

\* C25: aggregate drift.  For every world game_state.json lists, the audit
\* has a population error exactly when the stored rollup is not the number of
\* agent records in that world.
C25_AggregateDrift ==
    Audited =>
        \A w \in DOMAIN AuditedWorlds :
            (\E i \in ErrorsOfKind("population_drift") : audit.errors[i].world = w)
                <=> AuditedWorlds[w]["population"]
                        # ActualPopulation(audit.files.agents, w)

-----------------------------------------------------------------------------
(* C26 *)

\* the _meta.lastUpdate timestamps of the files among `names` that the audit
\* loaded and that carry one
StampsOf(names) ==
    {audit.files[n]["_meta"]["lastUpdate"] :
        n \in {m \in names : /\ IsDocument(audit.files[m])
                             /\ Has(audit.files[m], "_meta")
                             /\ Has(audit.files[m]["_meta"], "lastUpdate")}}

\* newest minus oldest
Spread(stamps) ==
    IF stamps = {} THEN 0
    ELSE (CHOOSE t \in stamps : \A u \in stamps : u <= t)
         - (CHOOSE t \in stamps : \A u \in stamps : t <= u)

-----------------------------------------------------------------------------
(* C27 *)

\* the canonical documents that were unreadable when the pass on record started
DamagedAtStart == {f \in CanonicalFiles : ~IsDocument(passStore[f])}

\* a pass has started and not been followed by a new submission
InPass == pc \in {"apply", "remove", "done"} /\ passInbox # EmptyObject

\* C27: structural errors do not destroy state.  When a canonical document is
\* malformed or missing as a pass starts, the pass writes no fresh document in
\* its place, and at its end the deltas that were pending are still in the
\* inbox.
C27_DamagedDocumentKept ==
    (InPass /\ DamagedAtStart # {}) =>
        /\ \A f \in DamagedAtStart : store[f] = passStore[f]
        /\ pc = "done" => inbox = passInbox

-----------------------------------------------------------------------------
(* C28 *)

\* the runs between their checkout and their push
InProgress == {r \in Workflows : wf.run[r].pc \in {"running", "written"}}

-----------------------------------------------------------------------------
(* C29 *)

\* the file of the latest validate_delta call that returned
LatestValidated(name) ==
    /\ Validated(name)
    /\ ~gate.raised
    /\ \A other \in DOMAIN gate.files : Validated(other) => NameRank(other) <= NameRank(name)

\* C29: the validator is pure.  What it reports for a delta depends on that
\* delta only: the errors list after the call for a file is the list the
\* checks give for that file, with no error of a file validated before it.
C29_ValidatorPure ==
    \A name \in DOMAIN gate.files :
        LatestValidated(name) =>
            gate.errors = validate_delta(name, gate.files[name]).errors

-----------------------------------------------------------------------------
(* C30 *)

\* validate_delta.py has no error for the delta and ends normally
Admitted(delta) ==
    LET r == validate_delta("delta", DeltaFile(delta))
    IN  ~r.raised /\ r.errors = <<>>

\* C30: inbox hygiene.  After a merge pass over an inbox whose deltas the delta
\* validator all admits with no violation, every one of them has been applied
\* and removed: the inbox is empty.
C30_InboxHygiene ==
    (/\ pc = "done"
     /\ passInbox # EmptyObject
     /\ \A name \in DOMAIN passInbox : Admitted(passInbox[name]))
        => inbox = EmptyObject

-----------------------------------------------------------------------------
(* C31 *)

\* the indexes of the records that the latest upsert found under its id
UpsertHits == RecordsOf(pre, LastDelta["agent_update"]["id"])

\* C31 as stated: when an agent_update names the id of an existing record,
\* the stored record afterwards equals the update, and the fields of the old
\* record that the update does not carry are gone.
C31_UpsertReplacesWholesale ==
    (Upserted /\ UpsertHits # {}) =>
        \E i \in UpsertHits : AgentsOf(store)[i] = LastDelta["agent_update"]

\* C31 amended: when an agent_update names the id of an existing record, the
\* stored record afterwards has the fields of the old record and those of the
\* update, each field of the update with the update's value and each other
\* field with the value it had.
C31_UpsertOverlays ==
    (Upserted /\ UpsertHits # {}) =>
        \E i \in UpsertHits :
            LET update == LastDelta["agent_update"]
                old == AgentsOf(pre)[i]
                new == AgentsOf(store)[i]
            IN  /\ DOMAIN new = DOMAIN old \cup DOMAIN update
                /\ \A f \in DOMAIN update : new[f] = update[f]
                /\ \A f \in DOMAIN old \ DOMAIN update : new[f] = old[f]

\* "r1" was updated by a payload of id, position and action: the record kept
\* its name, world and status and is not the payload
C31_Witness ==
    /\ Upserted
    /\ LastDelta = MoveR1
    /\ UpsertHits = {1}
    /\ DOMAIN MoveR1["agent_update"] = {"id", "position", "action"}
    /\ AgentsOf(store)[1]["position"] = Pos(5, 5)
    /\ {"name", "world", "status"} \subseteq DOMAIN AgentsOf(store)[1]
    /\ AgentsOf(store)[1] # MoveR1["agent_update"]

-----------------------------------------------------------------------------
(* C32 *)

\* s with its first k entries taken away
DropFirst(s, k) == SubSeq(s, k + 1, Len(s))

IsPrefix(s, t) == Len(s) <= Len(t) /\ SubSeq(t, 1, Len(s)) = s

\* the least number of oldest entries of `before` to take away for the rest
\* to be a prefix of `after`
Evicted(before, after) ==
    CHOOSE k \in 0..Len(before) :
        /\ IsPrefix(DropFirst(before, k), after)
        /\ \A j \in 0..(k - 1) : ~IsPrefix(DropFirst(before, j), after)

\* the entries of `before` are kept in place by a step to `after`: those that
\* are gone are the oldest, and they are gone only from a log at its cap
KeepsEntries(before, after) ==
    \/ Evicted(before, after) = 0
    \/ Len(after) = LogCap

\* C32: log entries are append-only.  No step of a merge pass modifies,
\* reorders or removes an entry of the actions log or of the chat log other
\* than by truncation: the log before the step, less the oldest entries that
\* truncation evicted, is a prefix of the log after it.
C32_AppendOnly ==
    [][/\ KeepsEntries(ActionsOf(store), ActionsOf(store'))
       /\ KeepsEntries(MessagesOf(store), MessagesOf(store'))]_vars

\* a delta has added its action behind the entries that were in the log
C32_Witness ==
    /\ Called
    /\ Len(ActionsOf(pre)) >= 1
    /\ Len(ActionsOf(store)) > Len(ActionsOf(pre))
    /\ IsPrefix(ActionsOf(pre), ActionsOf(store))
    /\ ActionsOf(store)[Len(ActionsOf(store))] \in Range(LastDelta["actions"])

-----------------------------------------------------------------------------
(* C33 *)

\* the number at the end of an action id, "action-002" or "action-2"
IdNumber(id) ==
    CHOOSE n \in 1..(MaxActionNumber + 1) :
        id \in {"action-" \o ToString(n), "action-00" \o ToString(n)}

\* C33: monotonic entry ids.  After any sequence of calls of the writers
\* the numbers of the ids in the actions log do not decrease in log order:
\* each writer gives a new action a number greater than every number in the
\* log.
C33_MonotonicIds ==
    LET log == ActionsLog(store)
    IN  \A i, j \in 1..Len(log) :
            i < j => IdNumber(log[i]["id"]) <= IdNumber(log[j]["id"])

-----------------------------------------------------------------------------
(* C34 *)

AuditedMessages == Get(audit.files.chat, "messages", <<>>)

\* some id is the id of two entries of the log
RepeatsAnId(log) == \E i, j \in 1..Len(log) : i < j /\ log[i]["id"] = log[j]["id"]

\* C34: entry id uniqueness is checked over the whole log.  validate_actions
\* and validate_chat report a duplicate id whenever an id occurs more than
\* once anywhere in the log, not only among the 10 most recent entries, and
\* report none when all the ids are distinct.
C34_DuplicatesAnywhere ==
    Audited =>
        /\ ErrorsOfKind("duplicate_action_id") # {} <=> RepeatsAnId(AuditedActions)
        /\ ErrorsOfKind("duplicate_message_id") # {} <=> RepeatsAnId(AuditedMessages)

\* the second entry of a log of 12 repeats the id of the first, both outside
\* the last 10, and the auditor names that id; the chat log repeats none
C34_Witness ==
    /\ Audited
    /\ Len(AuditedActions) = RecentWindow + 2
    /\ AuditedActions[2]["id"] = AuditedActions[1]["id"]
    /\ \E e \in ErrorsOfKind("duplicate_action_id") :
           audit.errors[e].id = AuditedActions[1]["id"]
    /\ ~RepeatsAnId(AuditedMessages)
    /\ ErrorsOfKind("duplicate_message_id") = {}

-----------------------------------------------------------------------------
(* C35 *)

\* the latest call was one of spawn_agent.py
Spawned == writer.script = "spawn_agent"

\* the id the call asked for is the id of a record that was there
AsksForExistingId == writer.args.agent_id \in AgentIdsOf(pre)

\* the call gave a position with --position that lies outside the world
AsksForPlaceOutside ==
    /\ writer.args.custom
    /\ validate_position(writer.args.position, writer.args.world, "spawn") # <<>>

\* C35: spawn fails without side effects.  When spawn_agent is asked for an
\* agent whose id exists already, or for a custom position outside the
\* bounds of the world, it ends with an error, and agents.json and
\* actions.json are as they were: no record added, no spawn action appended,
\* no counter incremented.
C35_SpawnFailsClean ==
    (Spawned /\ (AsksForExistingId \/ AsksForPlaceOutside)) =>
        /\ writer.ended = "error"
        /\ store.agents = pre.agents
        /\ store.actions = pre.actions

\* "r2" was spawned, and a second spawn of "r2" at a place within the bounds
\* ended with an error and left the two records and the counter as they were
C35_Witness ==
    /\ Spawned
    /\ writer.args.agent_id = "r2"
    /\ ~AsksForPlaceOutside
    /\ ~writer.args.dry_run
    /\ AgentIdsOf(pre) = {"r1", "r2"}
    /\ writer.ended = "error"
    /\ Len(AgentsOf(store)) = 2
    /\ store.actions["_meta"]["count"] = 1

-----------------------------------------------------------------------------
(* C38 *)

\* the latest call was execute_action with a move
MoveExecuted == writer.script = "agent_runtime" /\ writer.args.action_type = "move"

\* the move entries of the agent in the actions log
MovesBy(id) ==
    {i \in 1..Len(ActionsLog(store)) :
        /\ ActionsLog(store)[i]["type"] = "move"
        /\ ActionsLog(store)[i]["agentId"] = id}

\* the record of the agent is where its latest move entry says
AtLatestMove(id) ==
    LET latest == CHOOSE i \in MovesBy(id) : \A j \in MovesBy(id) : j <= i
    IN  AgentRecord(AgentsOf(store), id)["position"] = ActionsLog(store)[latest]["data"]["to"]

\* C38: a move is recorded consistently by execute_action.  In every state
\* that a call of execute_action with a move leaves behind, also one that
\* stopped with an error between its file writes and returned False, the
\* position of the agent is the `to` of its most recent move entry in the
\* actions log, and the auditor finds no position drift.
C38_MoveRecordedConsistently ==
    (MoveExecuted /\ writer.args.agent_id \in AgentIdsOf(store)) =>
        /\ MovesBy(writer.args.agent_id) # {} => AtLatestMove(writer.args.agent_id)
        /\ PositionAudit(store.agents, store.actions) = <<>>

-----------------------------------------------------------------------------
(* C36 *)

\* no entry is in the log twice
EachOnce(log) == \A i, j \in 1..Len(log) : i < j => log[i] # log[j]

\* C36: a delta's entries are committed exactly once even when a pass is
\* interrupted.  When a pass has written the entries of a delta to the
\* documents and stops before the file is removed from the inbox, the pass
\* that runs next does not append those entries a second time: with every
\* delta submitted once, no entry is in the actions log or the chat log twice.
C36_CommittedOnce ==
    /\ EachOnce(ActionsOf(store))
    /\ EachOnce(MessagesOf(store))

-----------------------------------------------------------------------------
(* C37 *)

\* C37: entry ids stay unique under concurrent writers.  When two writers
\* read the same baseline, each allocates the next action id, and both
\* deltas reach the log through the validator and the merge, no two entries
\* of the actions log have the same id.
C37_UniqueIdsUnderRace ==
    \A i, j \in 1..Len(ActionsOf(store)) :
        i < j => ActionsOf(store)[i]["id"] # ActionsOf(store)[j]["id"]

-----------------------------------------------------------------------------
(* C39 *)

\* the tick of world_growth has saved its documents (no --dry-run)
Ticked == writer.script = "world_growth" /\ writer.ended = "ok"

\* the record of the agent is in the world its latest move entry names
InWorldOfLatestMove(id) ==
    LET latest == CHOOSE i \in MovesBy(id) : \A j \in MovesBy(id) : j <= i
    IN  AgentRecord(AgentsOf(store), id)["world"] = ActionsLog(store)[latest]["world"]

\* C39: truncation never leaves drift behind in simulate_tick.  After the
\* tick has trimmed the actions log to 100 entries, added its position-sync
\* moves and trimmed again, every agent that still has a move entry in the
\* log is at the `to` position and in the world of its most recent surviving
\* move entry, and the log holds at most 100 entries.
C39_NoDriftAfterTrim ==
    Ticked =>
        /\ Len(ActionsLog(store)) <= LogCap
        /\ \A id \in AgentIdsOf(store) :
              MovesBy(id) # {} => AtLatestMove(id) /\ InWorldOfLatestMove(id)
        /\ PositionAudit(store.agents, store.actions) = <<>>

\* a log of 101 entries whose second entry is the move of "r2" to (6,6),
\* with "r2" at (0,0): the first trim leaves 100 entries, the sync move of
\* "r2" is added, and the second trim removes the move to (6,6)
C39_Witness ==
    /\ Ticked
    /\ Len(ActionsLog(pre)) = LogCap + 1
    /\ ActionsLog(pre)[2]["agentId"] = "r2"
    /\ ActionsLog(pre)[2]["type"] = "move"
    /\ AgentRecord(AgentsOf(pre), "r2")["position"] = Pos(0, 0)
    /\ Len(ActionsLog(store)) = LogCap
    /\ \E i \in MovesBy("r2") :
          /\ Has(ActionsLog(store)[i]["data"], "sync")
          /\ ActionsLog(store)[i]["data"]["to"] = Pos(0, 0)
    /\ \A i \in MovesBy("r2") : ActionsLog(store)[i]["data"]["to"] # Pos(6, 6)

=============================================================================
